---- MODULE Spec2Model ----
(***************************************************************************)
(* A model of the MCP client library: the message model (mcp/protocol.py), *)
(* the transports as the client sees them (mcp/transport.py) and the       *)
(* protocol client (mcp/client.py) with its caller threads and the         *)
(* transport's background reader.                                          *)
(*                                                                         *)
(* A JSON object is a record with one field per key the code looks at; a   *)
(* key that is not in the object holds the value Absent (NoId, NoError).   *)
(* Every `with self.lock:` block of the client is one action.              *)
(***************************************************************************)
EXTENDS Integers, Sequences, FiniteSets, TLC

\* ------------------------------------------------------------------ bounds
\* how many request ids one client generates in a run
MaxRequests == 2

\* how many times connect() is called on one transport in a run
MaxConnects == 2

\* how many MCPClients the web endpoints create in a run
MaxClients == 3

\* the servers configured in the web layer
ServerIds == {"s1", "s2"}

\* the threads that call into the client, next to the transport's reader
Callers == {"t1", "t2"}

\* ------------------------------------------------------- protocol constants
PARSE_ERROR == -32700
INVALID_REQUEST == -32600
METHOD_NOT_FOUND == -32601
INVALID_PARAMS == -32602
INTERNAL_ERROR == -32603

Absent == "absent"
NoId == <<>>
NoError == <<>>

\* the three transports: StdioTransport, HTTPTransport, WebSocketTransport
Kinds == {"stdio", "http", "websocket"}
AsyncKinds == {"stdio", "websocket"}

\* uuid.uuid4().hex[:8].  Ids are only ever compared for equality and nothing
\* keeps two random suffixes apart, so every id gets the same one: two ids
\* differ exactly when their counter parts do.
UuidHex == {"1f0e3dad"}

\* the empty dict {}: no key is present
EmptyDict ==
    [jsonrpc |-> Absent, method |-> Absent, params |-> Absent, id |-> NoId,
     result |-> Absent, error |-> NoError]

\* MCPError.to_dict
ErrorToDict(code, message, data) == <<code, message, data>>

\* MCPRequest(method, params, request_id).to_dict(): params is left out when
\* it is falsy (None or the empty dict)
MCPRequest(method, params, request_id) ==
    [jsonrpc |-> "2.0", method |-> method,
     params |-> IF params \in {"None", "{}"} THEN Absent ELSE params,
     id |-> request_id, result |-> Absent, error |-> NoError]

\* MCPNotification(method, params).to_dict()
MCPNotification(method, params) ==
    [jsonrpc |-> "2.0", method |-> method,
     params |-> IF params \in {"None", "{}"} THEN Absent ELSE params,
     id |-> NoId, result |-> Absent, error |-> NoError]

\* MCPResponse(request_id, result, error).to_dict()
MCPResponse(request_id, result, error) ==
    [jsonrpc |-> "2.0", method |-> Absent, params |-> Absent, id |-> request_id,
     result |-> IF error # NoError THEN Absent ELSE result,
     error |-> error]

\* json.dumps of a message dict: its members, in the order to_dict puts them
json_dumps(d) ==
    (IF d.jsonrpc # Absent THEN << <<"jsonrpc", d.jsonrpc>> >> ELSE <<>>)
    \o (IF d.method # Absent THEN << <<"method", d.method>> >> ELSE <<>>)
    \o (IF d.id # NoId THEN << <<"id", d.id>> >> ELSE <<>>)
    \o (IF d.params # Absent THEN << <<"params", d.params>> >> ELSE <<>>)
    \o (IF d.result # Absent THEN << <<"result", d.result>> >> ELSE <<>>)
    \o (IF d.error # NoError THEN << <<"error", d.error>> >> ELSE <<>>)

\* StdioTransport.send_message: json.dumps(message) + "\n"
StdioFrame(text) == <<text, "\n">>

\* _read_messages: line.strip()
Strip(line) == line[1]

\* dict.get(key, default) on the members of a decoded object
Member(text, key, default) ==
    IF \E i \in DOMAIN text : text[i][1] = key
    THEN text[CHOOSE i \in DOMAIN text : text[i][1] = key][2]
    ELSE default

\* json.loads of the text of an object: the members it has, no others
json_loads(text) ==
    [jsonrpc |-> Member(text, "jsonrpc", Absent),
     method |-> Member(text, "method", Absent),
     params |-> Member(text, "params", Absent),
     id |-> Member(text, "id", NoId),
     result |-> Member(text, "result", Absent),
     error |-> Member(text, "error", NoError)]

\* values that are not a str / not a dict
NonStr == "#nonstr"
NonDict == "#nondict"

\* a decoded payload that is no dict (a list, a number, a string): it has no
\* member, and its tag tells it from the empty dict
NotADict ==
    [jsonrpc |-> NonDict, method |-> Absent, params |-> Absent, id |-> NoId,
     result |-> Absent, error |-> NoError]

\* validate_message without the test of the jsonrpc member
validate_message_any_version(data) ==
    IF data = NotADict THEN INVALID_REQUEST
    ELSE IF data.method # Absent
         THEN IF data.method = NonStr THEN INVALID_REQUEST
              ELSE IF data.params # Absent /\ data.params = NonDict THEN INVALID_PARAMS
              ELSE 0
    ELSE IF data.result # Absent \/ data.error # NoError
         THEN IF data.id = NoId THEN INVALID_REQUEST
              ELSE IF data.result # Absent /\ data.error # NoError THEN INVALID_REQUEST
              ELSE 0
    ELSE INVALID_REQUEST

\* validate_message without the test for both result and error
validate_message_result_and_error(data) ==
    IF data = NotADict THEN INVALID_REQUEST
    ELSE IF data.jsonrpc # "2.0" THEN INVALID_REQUEST
    ELSE IF data.method # Absent
         THEN IF data.method = NonStr THEN INVALID_REQUEST
              ELSE IF data.params # Absent /\ data.params = NonDict THEN INVALID_PARAMS
              ELSE 0
    ELSE IF data.result # Absent \/ data.error # NoError
         THEN IF data.id = NoId THEN INVALID_REQUEST
              ELSE 0
    ELSE INVALID_REQUEST

\* validate_message: 0 or the code of the MCPError it raises
validate_message(data) ==
    IF data = NotADict THEN INVALID_REQUEST
    ELSE IF data.jsonrpc # "2.0" THEN INVALID_REQUEST
    ELSE IF data.method # Absent
         THEN IF data.method = NonStr THEN INVALID_REQUEST
              ELSE IF data.params # Absent /\ data.params = NonDict THEN INVALID_PARAMS
              ELSE 0
    ELSE IF data.result # Absent \/ data.error # NoError
         THEN IF data.id = NoId THEN INVALID_REQUEST
              ELSE IF data.result # Absent /\ data.error # NoError THEN INVALID_REQUEST
              ELSE 0
    ELSE INVALID_REQUEST

\* validate_tool_call that accepts the empty name
validate_tool_call_any_str(name, arguments) ==
    IF name = NonStr THEN INVALID_PARAMS
    ELSE IF arguments = NonDict THEN INVALID_PARAMS
    ELSE 0

\* validate_tool_call: 0 or the code of the MCPError it raises
validate_tool_call(name, arguments) ==
    IF name = NonStr \/ name = "" THEN INVALID_PARAMS
    ELSE IF arguments = NonDict THEN INVALID_PARAMS
    ELSE 0

\* ------------------------------------------------------------------- state
VARIABLES
    kind,                \* which MCPTransport the client was constructed with
    connected,           \* transport.connected
    running,             \* transport.running: the background reader loops while it holds
    handle,              \* transport.process / transport.websocket: "None" or "open"
    live,                \* the child process runs / the socket or HTTP session holds a connection
    initialized,         \* MCPClient.initialized
    server_capabilities, \* MCPClient.server_capabilities ("None" until stored)
    request_id_counter,  \* MCPClient.request_id_counter
    pending_requests,    \* MCPClient.pending_requests: request id -> the caller whose Event it is
    request_responses,   \* MCPClient.request_responses: request id -> message
    pc,                  \* where each caller thread is
    call,                \* the (method, params, input) of the operation a caller is in
    request_id,          \* _send_request's local request_id
    event,               \* the threading.Event of a caller's _send_request: is it set
    response,            \* _send_request's return value as the operation holds it
    outcome,             \* how the caller's operation ended
    sentBy,              \* the messages the caller's operation passed to transport.send_message
    generated,           \* every id _generate_request_id returned, in order
    in_time,             \* a Response to the caller's request reached the callback before its deadline
    late,                \* a Response to the caller's request reached the callback after the call ended
    last_delivery,       \* what became of the message the reader last handed to _handle_message
    handshaken,          \* some initialize() of this client has returned its result
    reader_exited,       \* the thread of _read_messages left its loop by a break
    replies,             \* what the reader handed to transport.send_message for the last message
    discarded,           \* the reader of this connection met text that is no JSON
    lock,                \* the holder of MCPClient.lock, or "free"
    reader_pc,           \* where the reader thread is in _handle_response
    reading,             \* the message the reader thread is handling
    readers,             \* the reader threads started so far: where each stands, what it reads
    closedBy,            \* the connections that were closed, and by whom
    active_clients,      \* app.active_clients: server id -> the client stored for it
    server_configs,      \* app.server_configs: server id -> status
    clients,             \* the MCPClients the endpoints created: server id, transport.connected
    payload,             \* a decoded payload given to validate_message
    verdict              \* what validate_message made of it: <<0>> or <<error code>>

vars == <<kind, connected, running, handle, live, initialized, server_capabilities,
          request_id_counter, pending_requests, request_responses, pc, call,
          request_id, event, response, outcome, sentBy, generated, in_time,
          late, last_delivery, handshaken, reader_exited, replies, discarded,
          lock, reader_pc, reading, readers, closedBy, active_clients, server_configs,
          clients, payload, verdict>>

transportVars == <<kind, connected, running, handle, live>>
sessionVars == <<initialized, server_capabilities>>
tableVars == <<pending_requests, request_responses>>
ghostVars == <<generated, in_time, late, last_delivery, handshaken>>
readerVars == <<reader_exited, replies, discarded>>
lockVars == <<lock, reader_pc, reading>>
threadVars == <<readers, closedBy>>
webVars == <<active_clients, server_configs, clients>>
pureVars == <<payload, verdict>>

NoCall == [method |-> Absent, params |-> Absent, input |-> <<>>]
NoOutcome == [status |-> "none", value |-> Absent, error |-> NoError]
Returned(v) == [status |-> "returned", value |-> v, error |-> NoError]
Raised(what) == [status |-> what, value |-> Absent, error |-> NoError]
RaisedMCPError(e) == [status |-> "MCPError", value |-> Absent, error |-> e]

NotInitialized == "RuntimeError: MCP client not initialized"
NotConnected == "RuntimeError: Not connected to MCP server"

\* an id no request of this client carries
StrayId == <<0, "00000000">>

\* what the remote may answer with
ResultValues == {"{capabilities}", "null"}
ErrorValues == {ErrorToDict(METHOD_NOT_FOUND, "not found", "None")}

\* validate_message was not called
Unvalidated == <<>>

\* MCPClient.__init__ over a transport that was just constructed
Init ==
    /\ kind \in Kinds
    /\ connected = FALSE
    /\ running = FALSE
    /\ handle = "None"
    /\ live = FALSE
    /\ initialized = FALSE
    /\ server_capabilities = "None"
    /\ request_id_counter = 0
    /\ pending_requests = <<>>
    /\ request_responses = <<>>
    /\ pc = [c \in Callers |-> "idle"]
    /\ call = [c \in Callers |-> NoCall]
    /\ request_id = [c \in Callers |-> NoId]
    /\ event = [c \in Callers |-> FALSE]
    /\ response = [c \in Callers |-> EmptyDict]
    /\ outcome = [c \in Callers |-> NoOutcome]
    /\ sentBy = [c \in Callers |-> <<>>]
    /\ generated = <<>>
    /\ in_time = [c \in Callers |-> FALSE]
    /\ late = [c \in Callers |-> FALSE]
    /\ last_delivery = "none"
    /\ handshaken = FALSE
    /\ reader_exited = FALSE
    /\ replies = <<>>
    /\ discarded = FALSE
    /\ lock = "free"
    /\ reader_pc = "recv"
    /\ reading = EmptyDict
    /\ readers = <<>>
    /\ closedBy = <<>>
    /\ active_clients = <<>>
    /\ server_configs = [s \in ServerIds |-> "disconnected"]
    /\ clients = <<>>
    /\ payload = EmptyDict
    /\ verdict = Unvalidated

\* dict.pop(key, None) on a table
Pop(table, key) == [k \in DOMAIN table \ {key} |-> table[k]]
\* table[key] = value
Put(table, key, value) == [k \in DOMAIN table \cup {key} |-> IF k = key THEN value ELSE table[k]]

\* ---------------------------------------------------- transport, as a whole
\* MCPClient.connect -> transport.connect, when the channel is established
ClientConnect ==
    /\ connected' = TRUE
    /\ running' = (kind \in AsyncKinds)
    /\ handle' = IF kind \in AsyncKinds THEN "open" ELSE handle
    /\ live' = TRUE
    /\ reader_exited' = FALSE
    /\ replies' = <<>>
    /\ discarded' = FALSE
    /\ UNCHANGED <<pureVars, webVars, threadVars, lockVars, kind, sessionVars, request_id_counter, tableVars, pc, call,
                   request_id, event, response, outcome, sentBy, ghostVars>>

\* a disconnect that also sets the Event of every waiter
ClientDisconnectReleasesWaiters ==
    /\ connected' = FALSE
    /\ running' = FALSE
    /\ handle' = "None"
    /\ live' = FALSE
    /\ initialized' = FALSE
    /\ event' = [c \in Callers |->
                   event[c] \/ \E k \in DOMAIN pending_requests : pending_requests[k] = c]
    /\ UNCHANGED <<pureVars, webVars, threadVars, lockVars, readerVars, kind, server_capabilities, request_id_counter, tableVars, pc,
                   call, request_id, response, outcome, sentBy, ghostVars>>

\* a disconnect that also empties pending_requests
ClientDisconnectClearsWaiters ==
    /\ connected' = FALSE
    /\ running' = FALSE
    /\ handle' = "None"
    /\ live' = FALSE
    /\ initialized' = FALSE
    /\ pending_requests' = <<>>
    /\ UNCHANGED <<pureVars, webVars, threadVars, lockVars, readerVars, kind, server_capabilities,
                   request_id_counter, request_responses, pc, call, request_id, event,
                   response, outcome, sentBy, ghostVars>>

\* MCPClient.disconnect: transport.disconnect(), then initialized = False
ClientDisconnect ==
    /\ connected' = FALSE
    /\ running' = FALSE
    /\ handle' = "None"
    /\ live' = FALSE
    /\ initialized' = FALSE
    /\ UNCHANGED <<pureVars, webVars, threadVars, lockVars, readerVars, kind, server_capabilities, request_id_counter, tableVars, pc,
                   call, request_id, event, response, outcome, sentBy, ghostVars>>

\* ------------------------------------------------------- the typed operations
\* Entering an operation that needs the handshake: the `if not self.initialized`
\* check, then (call_tool) validate_tool_call.  `input` is the (name, arguments)
\* a tool call was given, `valid` is 0 or an error code.
\* At most MaxRequests ids are generated in a run.
MayGenerate ==
    request_id_counter + Cardinality({d \in Callers : pc[d] = "gen"}) < MaxRequests

\* an operation that lacks the `if not self.initialized` test
EnterUnchecked(c, method, params, input, valid) ==
    /\ pc[c] = "idle"
    /\ IF valid # 0
       THEN /\ outcome' = [outcome EXCEPT ![c] =
                             RaisedMCPError(ErrorToDict(valid, "invalid tool call", "None"))]
            /\ pc' = [pc EXCEPT ![c] = "done"]
       ELSE /\ MayGenerate
            /\ outcome' = outcome
            /\ pc' = [pc EXCEPT ![c] = "gen"]
    /\ call' = [call EXCEPT ![c] = [method |-> method, params |-> params, input |-> input]]
    /\ UNCHANGED <<pureVars, webVars, threadVars, lockVars, readerVars, transportVars, sessionVars, request_id_counter, tableVars,
                   request_id, event, response, sentBy, ghostVars>>

Enter(c, method, params, input, valid) ==
    /\ pc[c] = "idle"
    /\ IF ~initialized
       THEN /\ outcome' = [outcome EXCEPT ![c] = Raised(NotInitialized)]
            /\ pc' = [pc EXCEPT ![c] = "done"]
       ELSE IF valid # 0
       THEN /\ outcome' = [outcome EXCEPT ![c] =
                             RaisedMCPError(ErrorToDict(valid, "invalid tool call", "None"))]
            /\ pc' = [pc EXCEPT ![c] = "done"]
       ELSE /\ MayGenerate
            /\ outcome' = outcome
            /\ pc' = [pc EXCEPT ![c] = "gen"]
    /\ call' = [call EXCEPT ![c] = [method |-> method, params |-> params, input |-> input]]
    /\ UNCHANGED <<pureVars, webVars, threadVars, lockVars, readerVars, transportVars, sessionVars, request_id_counter, tableVars,
                   request_id, event, response, sentBy, ghostVars>>

list_tools(c) == Enter(c, "tools/list", "{}", <<>>, 0)

call_tool(c) ==
    \E name \in {"x", "", NonStr}, arguments \in {"{}", NonDict} :
        Enter(c, "tools/call", "{name,arguments}", <<name, arguments>>,
              validate_tool_call(name, arguments))

list_resources(c) == Enter(c, "resources/list", "{}", <<>>, 0)

read_resource(c) == Enter(c, "resources/read", "{uri}", <<>>, 0)

list_prompts(c) == Enter(c, "prompts/list", "{}", <<>>, 0)

get_prompt(c) ==
    \E arguments \in {"None", "{a}"} :
        Enter(c, "prompts/get",
              IF arguments = "None" THEN "{name}" ELSE "{name,arguments}", <<>>, 0)

\* MCPClient.initialize, up to its call of _send_request: no check of initialized
initialize(c) ==
    /\ pc[c] = "idle"
    /\ MayGenerate
    /\ pc' = [pc EXCEPT ![c] = "gen"]
    /\ call' = [call EXCEPT ![c] =
                  [method |-> "initialize",
                   params |-> "{protocolVersion,capabilities,clientInfo}",
                   input |-> <<>>]]
    /\ UNCHANGED <<pureVars, webVars, threadVars, lockVars, readerVars, transportVars, sessionVars, request_id_counter, tableVars,
                   request_id, event, response, outcome, sentBy, ghostVars>>

\* ------------------------------------------------------------ _send_request
\* self.request_id_counter += 1
IncrementCounter(n) == n + 1

\* f"req_{self.request_id_counter}_{uuid.uuid4().hex[:8]}"
FormatId(n, u) == <<n, u>>

\* _generate_request_id that formats counter + 1 without storing it
GenerateRequestIdNoStore(c) ==
    /\ pc[c] = "gen"
    /\ \E u \in UuidHex :
         /\ request_id_counter' = request_id_counter
         /\ request_id' = [request_id EXCEPT ![c] = FormatId(request_id_counter + 1, u)]
         /\ generated' = Append(generated, request_id'[c])
    /\ pc' = [pc EXCEPT ![c] = "send"]
    /\ UNCHANGED <<pureVars, webVars, threadVars, lockVars, readerVars, transportVars, sessionVars, tableVars, call, event, response,
                   outcome, sentBy, in_time, late, last_delivery, handshaken>>

\* _generate_request_id: one `with self.lock:` block
GenerateRequestId(c) ==
    /\ pc[c] = "gen"
    /\ \E u \in UuidHex :
         /\ request_id_counter' = IncrementCounter(request_id_counter)
         /\ request_id' = [request_id EXCEPT ![c] = FormatId(request_id_counter', u)]
         /\ generated' = Append(generated, request_id'[c])
    /\ pc' = [pc EXCEPT ![c] = "send"]
    /\ UNCHANGED <<pureVars, webVars, threadVars, lockVars, readerVars, transportVars, sessionVars, tableVars, call, event, response,
                   outcome, sentBy, in_time, late, last_delivery, handshaken>>

TheRequest(c) == MCPRequest(call[c].method, call[c].params, request_id[c])

\* a _send_request that registers its Event before the send and has no finally
SendRaisesAfterRegister(c) ==
    /\ pc[c] = "send"
    /\ \/ /\ ~connected
          /\ outcome' = [outcome EXCEPT ![c] = Raised(NotConnected)]
       \/ /\ connected
          /\ outcome' = [outcome EXCEPT ![c] = Raised("transport error")]
    /\ sentBy' = [sentBy EXCEPT ![c] = Append(@, TheRequest(c))]
    /\ pending_requests' = Put(pending_requests, request_id[c], c)
    /\ pc' = [pc EXCEPT ![c] = "done"]
    /\ UNCHANGED <<pureVars, webVars, threadVars, lockVars, readerVars, transportVars, sessionVars, request_id_counter, request_responses,
                   call, request_id, event, response, ghostVars>>

\* transport.send_message raises: not connected (all transports), or the write
\* / POST fails once connected.  _send_request logs and re-raises.
SendRaises(c) ==
    /\ pc[c] = "send"
    /\ \/ /\ ~connected
          /\ outcome' = [outcome EXCEPT ![c] = Raised(NotConnected)]
       \/ /\ connected
          /\ outcome' = [outcome EXCEPT ![c] = Raised("transport error")]
    /\ sentBy' = [sentBy EXCEPT ![c] = Append(@, TheRequest(c))]
    /\ pc' = [pc EXCEPT ![c] = "done"]
    /\ UNCHANGED <<pureVars, webVars, threadVars, lockVars, readerVars, transportVars, sessionVars, request_id_counter, tableVars, call,
                   request_id, event, response, ghostVars>>

\* StdioTransport / WebSocketTransport.send_message writes the message and
\* returns None; _send_request goes on to register its Event
SendAsync(c) ==
    /\ pc[c] = "send"
    /\ kind \in AsyncKinds
    /\ connected
    /\ sentBy' = [sentBy EXCEPT ![c] = Append(@, TheRequest(c))]
    /\ pc' = [pc EXCEPT ![c] = "register"]
    /\ UNCHANGED <<pureVars, webVars, threadVars, lockVars, readerVars, transportVars, sessionVars, request_id_counter, tableVars, call,
                   request_id, event, response, outcome, ghostVars>>

\* HTTPTransport.send_message returns the decoded body; a dict is returned by
\* _send_request as it is, anything else falls through to the Event path
SendHTTP(c) ==
    /\ pc[c] = "send"
    /\ kind = "http"
    /\ connected
    /\ sentBy' = [sentBy EXCEPT ![c] = Append(@, TheRequest(c))]
    /\ \/ \E r \in ResultValues :
            /\ response' = [response EXCEPT ![c] = MCPResponse(request_id[c], r, NoError)]
            /\ pc' = [pc EXCEPT ![c] = "post"]
       \/ \E e \in ErrorValues :
            /\ response' = [response EXCEPT ![c] = MCPResponse(request_id[c], Absent, e)]
            /\ pc' = [pc EXCEPT ![c] = "post"]
       \/ /\ response' = response
          /\ pc' = [pc EXCEPT ![c] = "register"]
    /\ UNCHANGED <<pureVars, webVars, threadVars, lockVars, readerVars, transportVars, sessionVars, request_id_counter, tableVars, call,
                   request_id, event, outcome, ghostVars>>

\* with self.lock: event = threading.Event(); self.pending_requests[request_id] = event
Register(c) ==
    /\ pc[c] = "register"
    /\ pending_requests' = Put(pending_requests, request_id[c], c)
    /\ event' = [event EXCEPT ![c] = FALSE]
    /\ pc' = [pc EXCEPT ![c] = "waiting"]
    /\ UNCHANGED <<pureVars, webVars, threadVars, lockVars, readerVars, transportVars, sessionVars, request_id_counter, request_responses,
                   call, request_id, response, outcome, sentBy, ghostVars>>

\* event.wait(timeout) returned True;
\* with self.lock: response = self.request_responses.pop(request_id, {})
TakeResponse(c) ==
    /\ pc[c] = "waiting"
    /\ event[c]
    /\ response' = [response EXCEPT ![c] =
                      IF request_id[c] \in DOMAIN request_responses
                      THEN request_responses[request_id[c]] ELSE EmptyDict]
    /\ request_responses' = Pop(request_responses, request_id[c])
    /\ pc' = [pc EXCEPT ![c] = "cleanup"]
    /\ UNCHANGED <<pureVars, webVars, threadVars, lockVars, readerVars, transportVars, sessionVars, request_id_counter, pending_requests,
                   call, request_id, event, outcome, sentBy, ghostVars>>

\* event.wait() without a timeout never returns False
WaitWithoutTimeout(c) ==
    /\ pc[c] = "waiting"
    /\ FALSE
    /\ UNCHANGED vars

\* event.wait(timeout) returned False: the deadline passed with the Event unset
Timeout(c) ==
    /\ pc[c] = "waiting"
    /\ ~event[c]
    /\ outcome' = [outcome EXCEPT ![c] = Raised("TimeoutError")]
    /\ pc' = [pc EXCEPT ![c] = "cleanup"]
    /\ UNCHANGED <<pureVars, webVars, threadVars, lockVars, readerVars, transportVars, sessionVars, request_id_counter, tableVars, call,
                   request_id, event, response, sentBy, ghostVars>>

\* a finally block that forgets self.pending_requests.pop(request_id, None)
CleanupKeepsWaiter(c) ==
    /\ pc[c] = "cleanup"
    /\ request_responses' = Pop(request_responses, request_id[c])
    /\ IF outcome[c].status = "TimeoutError"
       THEN pc' = [pc EXCEPT ![c] = "done"]
       ELSE pc' = [pc EXCEPT ![c] = "post"]
    /\ UNCHANGED <<pureVars, webVars, threadVars, lockVars, readerVars, transportVars, sessionVars, request_id_counter, pending_requests,
                   call, request_id, event, response, outcome, sentBy, ghostVars>>

\* a finally block that forgets self.request_responses.pop(request_id, None)
CleanupKeepsResponse(c) ==
    /\ pc[c] = "cleanup"
    /\ pending_requests' = Pop(pending_requests, request_id[c])
    /\ IF outcome[c].status = "TimeoutError"
       THEN pc' = [pc EXCEPT ![c] = "done"]
       ELSE pc' = [pc EXCEPT ![c] = "post"]
    /\ UNCHANGED <<pureVars, webVars, threadVars, lockVars, readerVars, transportVars, sessionVars, request_id_counter, request_responses,
                   call, request_id, event, response, outcome, sentBy, ghostVars>>

\* a cleanup done in the timeout branch only, not in a finally block
CleanupOnTimeoutOnly(c) ==
    /\ pc[c] = "cleanup"
    /\ IF outcome[c].status = "TimeoutError"
       THEN /\ pending_requests' = Pop(pending_requests, request_id[c])
            /\ request_responses' = Pop(request_responses, request_id[c])
            /\ pc' = [pc EXCEPT ![c] = "done"]
       ELSE /\ UNCHANGED <<pending_requests, request_responses>>
            /\ pc' = [pc EXCEPT ![c] = "post"]
    /\ UNCHANGED <<pureVars, webVars, threadVars, lockVars, readerVars, transportVars, sessionVars, request_id_counter, call, request_id,
                   event, response, outcome, sentBy, ghostVars>>

\* finally: with self.lock: pop the id from both tables
Cleanup(c) ==
    /\ pc[c] = "cleanup"
    /\ pending_requests' = Pop(pending_requests, request_id[c])
    /\ request_responses' = Pop(request_responses, request_id[c])
    /\ IF outcome[c].status = "TimeoutError"
       THEN pc' = [pc EXCEPT ![c] = "done"]
       ELSE pc' = [pc EXCEPT ![c] = "post"]
    /\ UNCHANGED <<pureVars, webVars, threadVars, lockVars, readerVars, transportVars, sessionVars, request_id_counter, call, request_id,
                   event, response, outcome, sentBy, ghostVars>>

\* ------------------------------------------ back in the operation: the response
\* response.get('result', {})
GetResult(resp) == IF resp.result = Absent THEN "{}" ELSE resp.result

IsDict(v) == v \in {"{}", "{capabilities}"}

\* result.get('capabilities', {}) of a dict
GetCapabilities(result) == IF result = "{capabilities}" THEN "capabilities" ELSE "{}"

\* a typed operation that returns response.get('result', {}) without testing for an error
ReturnResultIgnoringError(c) ==
    /\ pc[c] = "post"
    /\ call[c].method # "initialize"
    /\ outcome' = [outcome EXCEPT ![c] = Returned(GetResult(response[c]))]
    /\ pc' = [pc EXCEPT ![c] = "done"]
    /\ UNCHANGED <<pureVars, webVars, threadVars, lockVars, readerVars, transportVars, sessionVars, request_id_counter, tableVars, call,
                   request_id, event, response, sentBy, ghostVars>>

\* a typed operation after _send_request returned:
\* `if 'error' in response: raise MCPError(...)`, else return response.get('result', {})
ReturnResult(c) ==
    /\ pc[c] = "post"
    /\ call[c].method # "initialize"
    /\ outcome' = [outcome EXCEPT ![c] =
                     IF response[c].error # NoError
                     THEN RaisedMCPError(response[c].error)
                     ELSE Returned(GetResult(response[c]))]
    /\ pc' = [pc EXCEPT ![c] = "done"]
    /\ UNCHANGED <<pureVars, webVars, threadVars, lockVars, readerVars, transportVars, sessionVars, request_id_counter, tableVars, call,
                   request_id, event, response, sentBy, ghostVars>>

\* initialize that lacks the `if 'error' in response` test
StoreCapabilitiesNoErrorCheck(c) ==
    /\ pc[c] = "post"
    /\ call[c].method = "initialize"
    /\ IF ~IsDict(GetResult(response[c]))
       THEN /\ outcome' = [outcome EXCEPT ![c] = Raised("AttributeError")]
            /\ pc' = [pc EXCEPT ![c] = "done"]
            /\ server_capabilities' = server_capabilities
       ELSE /\ outcome' = outcome
            /\ pc' = [pc EXCEPT ![c] = "notify"]
            /\ server_capabilities' = GetCapabilities(GetResult(response[c]))
    /\ UNCHANGED <<pureVars, webVars, threadVars, lockVars, readerVars, transportVars, initialized, request_id_counter, tableVars, call,
                   request_id, event, response, sentBy, ghostVars>>

\* initialize that stores result.get('capabilities', {}) before it tests for an error
StoreCapabilitiesBeforeErrorCheck(c) ==
    /\ pc[c] = "post"
    /\ call[c].method = "initialize"
    /\ IF ~IsDict(GetResult(response[c]))
       THEN /\ outcome' = [outcome EXCEPT ![c] = Raised("AttributeError")]
            /\ pc' = [pc EXCEPT ![c] = "done"]
            /\ server_capabilities' = server_capabilities
       ELSE /\ server_capabilities' = GetCapabilities(GetResult(response[c]))
            /\ IF response[c].error # NoError
               THEN /\ outcome' = [outcome EXCEPT ![c] = RaisedMCPError(response[c].error)]
                    /\ pc' = [pc EXCEPT ![c] = "done"]
               ELSE /\ outcome' = outcome
                    /\ pc' = [pc EXCEPT ![c] = "notify"]
    /\ UNCHANGED <<pureVars, webVars, threadVars, lockVars, readerVars, transportVars, initialized, request_id_counter, tableVars, call,
                   request_id, event, response, sentBy, ghostVars>>

\* initialize after _send_request returned: raise on an error, else
\* self.server_capabilities = result.get('capabilities', {})
StoreCapabilities(c) ==
    /\ pc[c] = "post"
    /\ call[c].method = "initialize"
    /\ IF response[c].error # NoError
       THEN /\ outcome' = [outcome EXCEPT ![c] = RaisedMCPError(response[c].error)]
            /\ pc' = [pc EXCEPT ![c] = "done"]
            /\ server_capabilities' = server_capabilities
       ELSE IF ~IsDict(GetResult(response[c]))
       THEN /\ outcome' = [outcome EXCEPT ![c] = Raised("AttributeError")]
            /\ pc' = [pc EXCEPT ![c] = "done"]
            /\ server_capabilities' = server_capabilities
       ELSE /\ outcome' = outcome
            /\ pc' = [pc EXCEPT ![c] = "notify"]
            /\ server_capabilities' = GetCapabilities(GetResult(response[c]))
    /\ UNCHANGED <<pureVars, webVars, threadVars, lockVars, readerVars, transportVars, initialized, request_id_counter, tableVars, call,
                   request_id, event, response, sentBy, ghostVars>>

\* a _send_notification without the HTTP special case
HasSessionNever(k) == FALSE

\* hasattr(self.transport, 'session'): only HTTPTransport has a session
HasSession(k) == k = "http"

\* an initialize that sets self.initialized = True before it sends the notification
SendInitializedAfterFlag(c) ==
    /\ pc[c] = "notify"
    /\ initialized' = TRUE
    /\ IF HasSession(kind)
       THEN /\ sentBy' = sentBy
            /\ outcome' = outcome
            /\ pc' = [pc EXCEPT ![c] = "setinit"]
       ELSE /\ sentBy' = [sentBy EXCEPT ![c] = Append(@, MCPNotification("initialized", "{}"))]
            /\ \/ /\ connected
                  /\ outcome' = outcome
                  /\ pc' = [pc EXCEPT ![c] = "setinit"]
               \/ /\ outcome' = [outcome EXCEPT ![c] =
                                   Raised(IF connected THEN "transport error" ELSE NotConnected)]
                  /\ pc' = [pc EXCEPT ![c] = "done"]
    /\ UNCHANGED <<pureVars, webVars, threadVars, lockVars, readerVars, transportVars, server_capabilities,
                   request_id_counter, tableVars, call, request_id, event, response,
                   ghostVars>>

\* _send_notification('initialized', {}): skipped over HTTP, else handed to
\* transport.send_message, which may raise
SendInitialized(c) ==
    /\ pc[c] = "notify"
    /\ IF HasSession(kind)
       THEN /\ sentBy' = sentBy
            /\ outcome' = outcome
            /\ pc' = [pc EXCEPT ![c] = "setinit"]
       ELSE /\ sentBy' = [sentBy EXCEPT ![c] = Append(@, MCPNotification("initialized", "{}"))]
            /\ \/ /\ connected
                  /\ outcome' = outcome
                  /\ pc' = [pc EXCEPT ![c] = "setinit"]
               \/ /\ outcome' = [outcome EXCEPT ![c] =
                                   Raised(IF connected THEN "transport error" ELSE NotConnected)]
                  /\ pc' = [pc EXCEPT ![c] = "done"]
    /\ UNCHANGED <<pureVars, webVars, threadVars, lockVars, readerVars, transportVars, sessionVars, request_id_counter, tableVars, call,
                   request_id, event, response, ghostVars>>

\* self.initialized = True; return result
SetInitialized(c) ==
    /\ pc[c] = "setinit"
    /\ initialized' = TRUE
    /\ outcome' = [outcome EXCEPT ![c] = Returned(GetResult(response[c]))]
    /\ pc' = [pc EXCEPT ![c] = "done"]
    /\ handshaken' = TRUE
    /\ UNCHANGED <<pureVars, webVars, threadVars, lockVars, readerVars, transportVars, server_capabilities, request_id_counter, tableVars,
                   call, request_id, event, response, sentBy, generated, in_time, late,
                   last_delivery>>

\* the operation has returned or raised; the thread is free for the next one
Return(c) ==
    /\ pc[c] = "done"
    /\ pc' = [pc EXCEPT ![c] = "idle"]
    /\ call' = [call EXCEPT ![c] = NoCall]
    /\ request_id' = [request_id EXCEPT ![c] = NoId]
    /\ event' = [event EXCEPT ![c] = FALSE]
    /\ response' = [response EXCEPT ![c] = EmptyDict]
    /\ outcome' = [outcome EXCEPT ![c] = NoOutcome]
    /\ sentBy' = [sentBy EXCEPT ![c] = <<>>]
    /\ in_time' = [in_time EXCEPT ![c] = FALSE]
    /\ late' = [late EXCEPT ![c] = FALSE]
    /\ UNCHANGED <<pureVars, webVars, threadVars, lockVars, readerVars, transportVars, sessionVars, request_id_counter, tableVars,
                   generated, last_delivery, handshaken>>

\* ------------------------------------------------- the background reader
\* the ids of the requests handed to the transport so far
SentIds ==
    {generated[i] : i \in DOMAIN generated} \ {request_id[c] : c \in {d \in Callers : pc[d] = "send"}}

\* the Responses the remote may put on the connection: to any request it was
\* sent, and to an id the client never used
Inbound ==
    { MCPResponse(i, r, NoError) : i \in SentIds \cup {StrayId}, r \in ResultValues }
    \cup { MCPResponse(i, Absent, e) : i \in SentIds \cup {StrayId}, e \in ErrorValues }

IsResponse(m) == m.id # NoId /\ (m.result # Absent \/ m.error # NoError)

\* _handle_response that wakes every waiter with the message, whatever its id
HandleResponseBroadcast(m) ==
    IF pending_requests # <<>>
    THEN /\ request_responses' = [k \in DOMAIN pending_requests |-> m]
         /\ event' = [c \in Callers |->
                        event[c] \/ \E k \in DOMAIN pending_requests : pending_requests[k] = c]
    ELSE UNCHANGED <<request_responses, event>>

\* _handle_response without the `if request_id in self.pending_requests` test
HandleResponseUnchecked(m) ==
    /\ request_responses' = Put(request_responses, m.id, m)
    /\ event' = IF m.id \in DOMAIN pending_requests
                THEN [event EXCEPT ![pending_requests[m.id]] = TRUE]
                ELSE event

\* _handle_response: one `with self.lock:` block
HandleResponse(m) ==
    IF m.id \in DOMAIN pending_requests
    THEN /\ request_responses' = Put(request_responses, m.id, m)
         /\ event' = [event EXCEPT ![pending_requests[m.id]] = TRUE]
    ELSE UNCHANGED <<request_responses, event>>

IsNotification(m) == m.method # Absent /\ m.id = NoId

IsRequest(m) == m.method # Absent /\ m.id # NoId

\* _handle_request that answers with the InvalidRequest code
handle_request_invalid_request(m) ==
    MCPResponse(m.id, Absent, ErrorToDict(INVALID_REQUEST, "not supported", "None"))

\* _handle_request: the error Response it hands to transport.send_message
handle_request(m) ==
    MCPResponse(m.id, Absent, ErrorToDict(METHOD_NOT_FOUND, "not supported", "None"))

\* _handle_message without its call of validate_message
HandleMessageUnvalidated(m) ==
    IF IsResponse(m)
    THEN /\ HandleResponse(m)
         /\ replies' = <<>>
    ELSE IF IsNotification(m)
    THEN /\ UNCHANGED <<request_responses, event>>
         /\ replies' = <<>>
    ELSE IF IsRequest(m)
    THEN /\ UNCHANGED <<request_responses, event>>
         /\ replies' = <<handle_request(m)>>
    ELSE /\ UNCHANGED <<request_responses, event>>
         /\ replies' = <<>>

\* _handle_message: validate, then dispatch on the shape of the message:
\* a Response first, then a notification (logged), then a request
HandleMessage(m) ==
    IF validate_message(m) # 0
    THEN /\ UNCHANGED <<request_responses, event>>
         /\ replies' = <<>>
    ELSE IF IsResponse(m)
    THEN /\ HandleResponse(m)
         /\ replies' = <<>>
    ELSE IF IsNotification(m)
    THEN /\ UNCHANGED <<request_responses, event>>
         /\ replies' = <<>>
    ELSE IF IsRequest(m)
    THEN /\ UNCHANGED <<request_responses, event>>
         /\ replies' = <<handle_request(m)>>
    ELSE /\ UNCHANGED <<request_responses, event>>
         /\ replies' = <<>>

\* _read_messages decoded a line / frame and calls message_handler, which is
\* MCPClient._handle_message
Deliver(m) ==
    /\ kind \in AsyncKinds
    /\ running
    /\ ~reader_exited
    /\ HandleMessage(m)
    /\ last_delivery' = IF validate_message(m) # 0 THEN "invalid"
                        ELSE IF ~IsResponse(m) THEN "other"
                        ELSE IF m.id \in DOMAIN pending_requests THEN "matched"
                        ELSE "unmatched"
    /\ in_time' = [c \in Callers |->
                     \/ in_time[c]
                     \/ /\ validate_message(m) = 0 /\ IsResponse(m)
                        /\ m.id = request_id[c]
                        /\ pc[c] \in {"register", "waiting"}]
    /\ late' = [c \in Callers |->
                     \/ late[c]
                     \/ /\ validate_message(m) = 0 /\ IsResponse(m)
                        /\ m.id = request_id[c]
                        /\ pc[c] = "done"]
    /\ UNCHANGED <<pureVars, webVars, threadVars, lockVars, reader_exited, discarded, transportVars, sessionVars,
                   request_id_counter, pending_requests,
                   pc, call, request_id, response, outcome, sentBy, generated,
                   handshaken>>

\* ReaderEnds in which the WebSocketTransport reader leaves connected as it is
ReaderEndsKeepsConnected ==
    /\ kind \in AsyncKinds
    /\ running
    /\ ~reader_exited
    /\ reader_exited' = TRUE
    /\ UNCHANGED <<pureVars, webVars, threadVars, lockVars, replies, discarded, transportVars,
                   sessionVars, request_id_counter, tableVars, request_id, event,
                   response, sentBy, ghostVars, pc, call, outcome>>

\* DiscardFrame in which the decode error ends the loop
DiscardFrameEndsReader ==
    /\ kind \in AsyncKinds
    /\ running
    /\ ~reader_exited
    /\ discarded' = TRUE
    /\ replies' = <<>>
    /\ last_delivery' = "undecodable"
    /\ reader_exited' = TRUE
    /\ UNCHANGED <<pureVars, webVars, threadVars, lockVars, transportVars, sessionVars, request_id_counter,
                   tableVars, pc, call, request_id, event, response, outcome, sentBy,
                   generated, in_time, late, handshaken>>

\* _read_messages reads text that json.loads rejects with JSONDecodeError: the
\* inner except clause logs it and the loop goes on
DiscardFrame ==
    /\ kind \in AsyncKinds
    /\ running
    /\ ~reader_exited
    /\ discarded' = TRUE
    /\ replies' = <<>>
    /\ last_delivery' = "undecodable"
    /\ UNCHANGED <<pureVars, webVars, threadVars, lockVars, reader_exited, transportVars, sessionVars, request_id_counter,
                   tableVars, pc, call, request_id, event, response, outcome, sentBy,
                   generated, in_time, late, handshaken>>

\* ReaderEnds in which the StdioTransport reader, too, sets connected = False
ReaderEndsDisconnects ==
    /\ kind \in AsyncKinds
    /\ running
    /\ ~reader_exited
    /\ reader_exited' = TRUE
    /\ connected' = FALSE
    /\ UNCHANGED <<pureVars, webVars, threadVars, lockVars, replies, discarded, kind, running, handle, live,
                   sessionVars, request_id_counter, tableVars, request_id, event,
                   response, sentBy, ghostVars, pc, call, outcome>>

\* _read_messages leaves its loop by a break: readline returns '' (stdio), recv
\* raises WebSocketConnectionClosedException or another exception.  After its
\* loop the WebSocketTransport reader sets connected = False; the
\* StdioTransport reader sets nothing.
ReaderEnds ==
    /\ kind \in AsyncKinds
    /\ running
    /\ ~reader_exited
    /\ reader_exited' = TRUE
    /\ connected' = IF kind = "websocket" THEN FALSE ELSE connected
    /\ UNCHANGED <<pureVars, webVars, threadVars, lockVars, replies, discarded, kind, running, handle, live,
                   sessionVars, request_id_counter, tableVars, request_id, event,
                   response, sentBy, ghostVars, pc, call, outcome>>

\* ------------------------------------------------------------ specification
\* the steps of _send_request and of the operation that called it
RequestStep(c) ==
    \/ GenerateRequestId(c)
    \/ SendRaises(c)
    \/ SendAsync(c)
    \/ SendHTTP(c)
    \/ Register(c)
    \/ TakeResponse(c)
    \/ Timeout(c)
    \/ Cleanup(c)
    \/ ReturnResult(c)
    \/ StoreCapabilities(c)
    \/ SendInitialized(c)
    \/ SetInitialized(c)
    \/ Return(c)

\* concurrent callers: every thread of Callers issues handshakes and tool listings
Next ==
    \/ ClientConnect
    \/ ClientDisconnect
    \/ \E c \in Callers : initialize(c) \/ list_tools(c) \/ RequestStep(c)
    \/ \E m \in Inbound : Deliver(m)

Spec == Init /\ [][Next]_vars

\* one caller thread using every operation of the client
MainThread == "t1"

NextSession ==
    \/ ClientConnect
    \/ ClientDisconnect
    \/ initialize(MainThread)
    \/ list_tools(MainThread)
    \/ call_tool(MainThread)
    \/ list_resources(MainThread)
    \/ read_resource(MainThread)
    \/ list_prompts(MainThread)
    \/ get_prompt(MainThread)
    \/ RequestStep(MainThread)
    \/ \E m \in Inbound : Deliver(m)

SpecSession == Init /\ [][NextSession]_vars

\* ------------------------------------- transport.connect / disconnect, by step
\* what connect and disconnect never touch: the client's session and tables
clientVars ==
    <<sessionVars, request_id_counter, tableVars, request_id, event, response,
      sentBy, ghostVars>>

ConnectCall == [method |-> "connect", params |-> Absent, input |-> <<>>]

\* a disconnect() call; `input` keeps what the transport was like on entry
DisconnectCall == [method |-> "disconnect", params |-> Absent,
                   input |-> <<connected, handle, live>>]

\* connect() establishes the channel: StdioTransport starts the process,
\* WebSocketTransport opens the socket, both set running and connected and
\* start the reader; HTTPTransport's preflight POST is answered 200 with a
\* jsonrpc result and it sets connected
TransportConnect(t) ==
    /\ pc[t] = "idle"
    /\ call' = [call EXCEPT ![t] = ConnectCall]
    /\ connected' = TRUE
    /\ live' = TRUE
    /\ IF kind \in AsyncKinds
       THEN handle' = "open" /\ running' = TRUE
       ELSE UNCHANGED <<handle, running>>
    /\ outcome' = [outcome EXCEPT ![t] = Returned("None")]
    /\ pc' = [pc EXCEPT ![t] = "done"]
    /\ UNCHANGED <<pureVars, webVars, threadVars, lockVars, readerVars, kind, clientVars>>

\* connect() fails; the except clause logs and re-raises, and resets nothing.
\* StdioTransport / WebSocketTransport: Popen or create_connection raises
\* before any assignment, or reader_thread.start() raises after the handle,
\* running and connected were set.  HTTPTransport: the preflight POST raises,
\* or is answered with another status than 200 or with a body that is no
\* jsonrpc result (the POST may leave a connection in the session's pool).
TransportConnectFails(t) ==
    /\ pc[t] = "idle"
    /\ call' = [call EXCEPT ![t] = ConnectCall]
    /\ IF kind = "http"
       THEN /\ \E l \in {live, TRUE} : live' = l
            /\ UNCHANGED <<connected, running, handle>>
       ELSE \/ UNCHANGED <<connected, running, handle, live>>
            \/ /\ handle' = "open" /\ live' = TRUE
               /\ running' = TRUE /\ connected' = TRUE
    /\ outcome' = [outcome EXCEPT ![t] = Raised("connect error")]
    /\ pc' = [pc EXCEPT ![t] = "done"]
    /\ UNCHANGED <<pureVars, webVars, threadVars, lockVars, readerVars, kind, clientVars>>

\* disconnect(), first statements.  HTTPTransport: connected = False and
\* session.close(), which is all of it.  StdioTransport / WebSocketTransport:
\* running = False; connected = False
DisconnectBegin(t) ==
    /\ pc[t] = "idle"
    /\ call' = [call EXCEPT ![t] = DisconnectCall]
    /\ connected' = FALSE
    /\ IF kind = "http"
       THEN /\ live' = FALSE
            /\ outcome' = [outcome EXCEPT ![t] = Returned("None")]
            /\ pc' = [pc EXCEPT ![t] = "done"]
            /\ UNCHANGED running
       ELSE /\ running' = FALSE
            /\ pc' = [pc EXCEPT ![t] = "d_check"]
            /\ UNCHANGED <<live, outcome>>
    /\ UNCHANGED <<pureVars, webVars, threadVars, lockVars, readerVars, kind, handle, clientVars>>

\* a disconnect() without the `if self.process:` / `if self.websocket:` test
DisconnectCheckAlways(t) ==
    /\ pc[t] = "d_check"
    /\ pc' = [pc EXCEPT ![t] = IF kind = "stdio" THEN "d_terminate" ELSE "d_close"]
    /\ UNCHANGED <<pureVars, webVars, threadVars, lockVars, readerVars, transportVars, clientVars, call, outcome>>

\* `if self.process:` / `if self.websocket:`
DisconnectCheck(t) ==
    /\ pc[t] = "d_check"
    /\ pc' = [pc EXCEPT ![t] =
                IF handle = "None" THEN "d_join"
                ELSE IF kind = "stdio" THEN "d_terminate" ELSE "d_close"]
    /\ UNCHANGED <<pureVars, webVars, threadVars, lockVars, readerVars, transportVars, clientVars, call, outcome>>

\* an attribute of self.process is read while self.process is None: the
\* AttributeError is no subprocess.TimeoutExpired and leaves disconnect()
RaiseAttributeError(t) ==
    /\ outcome' = [outcome EXCEPT ![t] = Raised("AttributeError")]
    /\ pc' = [pc EXCEPT ![t] = "done"]
    /\ UNCHANGED live

\* self.process.terminate()
DisconnectTerminate(t) ==
    /\ pc[t] = "d_terminate"
    /\ IF handle = "None"
       THEN RaiseAttributeError(t)
       ELSE /\ pc' = [pc EXCEPT ![t] = "d_wait"]
            /\ UNCHANGED <<live, outcome>>
    /\ UNCHANGED <<pureVars, webVars, threadVars, lockVars, readerVars, kind, connected, running, handle, clientVars, call>>

\* self.process.wait(timeout=5): the process has exited, or TimeoutExpired
DisconnectWait(t) ==
    /\ pc[t] = "d_wait"
    /\ IF handle = "None"
       THEN RaiseAttributeError(t)
       ELSE \/ /\ live' = FALSE
               /\ pc' = [pc EXCEPT ![t] = "d_clear"]
               /\ UNCHANGED outcome
            \/ /\ live
               /\ pc' = [pc EXCEPT ![t] = "d_kill"]
               /\ UNCHANGED <<live, outcome>>
    /\ UNCHANGED <<pureVars, webVars, threadVars, lockVars, readerVars, kind, connected, running, handle, clientVars, call>>

\* except subprocess.TimeoutExpired: self.process.kill(); self.process.wait()
DisconnectKill(t) ==
    /\ pc[t] = "d_kill"
    /\ IF handle = "None"
       THEN RaiseAttributeError(t)
       ELSE /\ live' = FALSE
            /\ pc' = [pc EXCEPT ![t] = "d_clear"]
            /\ UNCHANGED outcome
    /\ UNCHANGED <<pureVars, webVars, threadVars, lockVars, readerVars, kind, connected, running, handle, clientVars, call>>

\* try: self.websocket.close() / except Exception: log.  An AttributeError on
\* None is caught like any other.
DisconnectClose(t) ==
    /\ pc[t] = "d_close"
    /\ live' = IF handle = "None" THEN live ELSE FALSE
    /\ pc' = [pc EXCEPT ![t] = "d_clear"]
    /\ UNCHANGED <<pureVars, webVars, threadVars, lockVars, readerVars, kind, connected, running, handle, clientVars, call, outcome>>

\* self.process = None / self.websocket = None
DisconnectClear(t) ==
    /\ pc[t] = "d_clear"
    /\ handle' = "None"
    /\ pc' = [pc EXCEPT ![t] = "d_join"]
    /\ UNCHANGED <<pureVars, webVars, threadVars, lockVars, readerVars, kind, connected, running, live, clientVars, call, outcome>>

\* self.reader_thread.join(timeout=1) when there is a live reader; return
DisconnectJoin(t) ==
    /\ pc[t] = "d_join"
    /\ outcome' = [outcome EXCEPT ![t] = Returned("None")]
    /\ pc' = [pc EXCEPT ![t] = "done"]
    /\ UNCHANGED <<pureVars, webVars, threadVars, lockVars, readerVars, transportVars, clientVars, call>>

\* the steps of one disconnect() call, and the caller going on after a call
DisconnectStep(t) ==
    \/ DisconnectCheck(t)
    \/ DisconnectTerminate(t)
    \/ DisconnectWait(t)
    \/ DisconnectKill(t)
    \/ DisconnectClose(t)
    \/ DisconnectClear(t)
    \/ DisconnectJoin(t)
    \/ Return(t)

\* no other thread is inside a connect() or disconnect() call
Serial(t) == \A d \in Callers \ {t} : pc[d] \in {"idle", "done"}

\* the threads of Callers call connect() and disconnect() on one transport, one
\* call at a time
NextLifecycle ==
    \E t \in Callers :
        \/ Serial(t) /\ TransportConnect(t)
        \/ Serial(t) /\ TransportConnectFails(t)
        \/ Serial(t) /\ DisconnectBegin(t)
        \/ DisconnectStep(t)

SpecLifecycle == Init /\ [][NextLifecycle]_vars

\* the threads of Callers call connect() and disconnect() on one transport, at
\* any time
NextTransport ==
    \E t \in Callers :
        \/ TransportConnect(t)
        \/ TransportConnectFails(t)
        \/ DisconnectBegin(t)
        \/ DisconnectStep(t)

SpecTransport == Init /\ [][NextTransport]_vars

\* -------------------------------------------- the reader and what it reads
\* MCPClient.get_server_info
get_server_info ==
    [capabilities |-> server_capabilities, initialized |-> initialized,
     connected |-> connected]

\* Requests the remote side sends on its own: with an id of its choosing, which
\* may equal an id this client has in use
RemoteRequests ==
    { MCPRequest(m, q, i) : m \in {"ping"}, q \in {"None", "{uri}"},
                            i \in SentIds \cup {StrayId} }

\* notifications of the remote side
RemoteNotifications == { MCPNotification(m, "None") : m \in {"progress", "other"} }

FromRemote == Inbound \cup RemoteRequests \cup RemoteNotifications

\* one caller thread, and a remote side that answers, asks, notifies, sends
\* text that is no JSON, and closes
NextReader ==
    \/ ClientConnect
    \/ ClientDisconnect
    \/ initialize(MainThread)
    \/ list_tools(MainThread)
    \/ RequestStep(MainThread)
    \/ \E m \in FromRemote : Deliver(m)
    \/ DiscardFrame
    \/ ReaderEnds

SpecReader == Init /\ [][NextReader]_vars

\* ------------------------------------------- whatever the remote side sends
\* a payload with both result and error
BothResultAndError(i) ==
    [jsonrpc |-> "2.0", method |-> Absent, params |-> Absent, id |-> i,
     result |-> "null", error |-> ErrorToDict(METHOD_NOT_FOUND, "not found", "None")]

\* a Response in all but its version tag
WrongVersion(i) ==
    [jsonrpc |-> "1.0", method |-> Absent, params |-> Absent, id |-> i,
     result |-> "null", error |-> NoError]

\* payloads that decode as JSON and that validate_message rejects
InvalidInbound ==
    { BothResultAndError(i) : i \in SentIds \cup {StrayId} }
    \cup { WrongVersion(i) : i \in SentIds \cup {StrayId} }
    \cup {NotADict}

\* the JSON objects an HTTP server may put in the body of its 200 answer to the
\* POST of c's request: the Response to it, a Response with another id, and
\* objects that are no valid message
HTTPBodies(c) ==
    { MCPResponse(i, r, NoError) : i \in {request_id[c], StrayId}, r \in ResultValues }
    \cup { MCPResponse(request_id[c], Absent, e) : e \in ErrorValues }
    \cup { BothResultAndError(request_id[c]), WrongVersion(request_id[c]) }

\* HTTPTransport.send_message returns response.json() whatever it holds, and
\* _send_request returns a dict as it is
SendHTTPBody(c) ==
    /\ pc[c] = "send"
    /\ kind = "http"
    /\ connected
    /\ sentBy' = [sentBy EXCEPT ![c] = Append(@, TheRequest(c))]
    /\ \E body \in HTTPBodies(c) :
         response' = [response EXCEPT ![c] = body]
    /\ pc' = [pc EXCEPT ![c] = "post"]
    /\ UNCHANGED <<pureVars, webVars, threadVars, lockVars, readerVars, transportVars, sessionVars,
                   request_id_counter, tableVars, call, request_id, event, outcome,
                   ghostVars>>

\* one caller thread against a remote side that is held to nothing
NextWire ==
    \/ ClientConnect
    \/ ClientDisconnect
    \/ initialize(MainThread)
    \/ list_tools(MainThread)
    \/ RequestStep(MainThread)
    \/ SendHTTPBody(MainThread)
    \/ \E m \in Inbound \cup InvalidInbound : Deliver(m)

SpecWire == Init /\ [][NextWire]_vars

\* --------------------------------------- the reader threads of a transport
\* StdioTransport and WebSocketTransport with the threads that connect() starts:
\* each runs _read_messages, whose loop tests self.running and self.process /
\* self.websocket at its top and then blocks in readline / recv on the object
\* it found there.
ConnNames == <<"conn1", "conn2", "conn3", "conn4">>

\* the process or socket that the n-th connect() creates
Conn(n) == ConnNames[n]

\* what connect, disconnect and the readers leave alone
threadRest ==
    <<pureVars, webVars, lockVars, readerVars, kind, clientVars, pc, call, outcome>>

\* the threads that are inside the loop of _read_messages
Looping == {r \in DOMAIN readers : readers[r].at # "exited"}

\* connect(): no test of connected or of an earlier thread; Popen /
\* create_connection, running = connected = True, a new Thread started and
\* stored in self.reader_thread
ThreadConnect ==
    /\ kind \in AsyncKinds
    /\ Len(readers) < MaxConnects
    /\ handle' = Conn(Len(readers) + 1)
    /\ running' = TRUE
    /\ connected' = TRUE
    /\ live' = TRUE
    /\ readers' = Append(readers, [at |-> "top", on |-> "None"])
    /\ UNCHANGED <<threadRest, closedBy>>

\* disconnect(): running = connected = False; the process is terminated / the
\* socket closed and the attribute set to None; reader_thread.join(timeout=1)
\* returns when the thread has ended or when the second has passed
ThreadDisconnect ==
    /\ kind \in AsyncKinds
    /\ running' = FALSE
    /\ connected' = FALSE
    /\ live' = FALSE
    /\ handle' = "None"
    /\ closedBy' = IF handle # "None" /\ handle \notin DOMAIN closedBy
                   THEN Put(closedBy, handle, "disconnect")
                   ELSE closedBy
    /\ UNCHANGED <<threadRest, readers>>

\* the child exits or closes its output / the peer closes the socket
PeerClose ==
    /\ kind \in AsyncKinds
    /\ handle # "None"
    /\ handle \notin DOMAIN closedBy
    /\ closedBy' = Put(closedBy, handle, "peer")
    /\ UNCHANGED <<threadRest, connected, running, handle, live, readers>>

\* `while self.running and self.websocket:` (self.process): into recv /
\* readline on the object the attribute holds now, or out of the loop, after
\* which the WebSocket reader sets connected = False
ReaderLoopTop(r) ==
    /\ r \in DOMAIN readers
    /\ readers[r].at = "top"
    /\ IF running /\ handle # "None"
       THEN /\ readers' = [readers EXCEPT ![r] = [at |-> "recv", on |-> handle]]
            /\ UNCHANGED connected
       ELSE /\ readers' = [readers EXCEPT ![r] = [at |-> "exited", on |-> "None"]]
            /\ connected' = IF kind = "websocket" THEN FALSE ELSE connected
    /\ UNCHANGED <<threadRest, running, handle, live, closedBy>>

\* recv / readline returns a message or a line: it is handled and the loop
\* goes back to its top
ReaderGetsMessage(r) ==
    /\ r \in DOMAIN readers
    /\ readers[r].at = "recv"
    /\ readers[r].on \notin DOMAIN closedBy
    /\ readers' = [readers EXCEPT ![r] = [at |-> "top", on |-> "None"]]
    /\ UNCHANGED <<threadRest, connected, running, handle, live, closedBy>>

\* recv raises on the closed socket / readline returns '' at the end of the
\* pipe: break, and the WebSocket reader sets connected = False
ReaderBreaks(r) ==
    /\ r \in DOMAIN readers
    /\ readers[r].at = "recv"
    /\ readers[r].on \in DOMAIN closedBy
    /\ readers' = [readers EXCEPT ![r] = [at |-> "exited", on |-> "None"]]
    /\ connected' = IF kind = "websocket" THEN FALSE ELSE connected
    /\ UNCHANGED <<threadRest, running, handle, live, closedBy>>

ReaderThread(r) ==
    \/ ReaderLoopTop(r)
    \/ ReaderGetsMessage(r)
    \/ ReaderBreaks(r)

NextThreads ==
    \/ ThreadConnect
    \/ ThreadDisconnect
    \/ PeerClose
    \/ \E r \in 1..MaxConnects : ReaderThread(r)

SpecThreads == Init /\ [][NextThreads]_vars

\* ------------------------------------------------------------ the web layer
\* app.py: the endpoints that create, store and disconnect MCPClients.  Each
\* client has a transport of its own; clients[k].connected is its
\* transport.connected.
webRest ==
    <<pureVars, threadVars, lockVars, readerVars, transportVars, clientVars, pc, call,
      outcome>>

\* how client.connect() followed by client.initialize(...) may end
HandshakeEnds == {"connect raises", "initialize raises", "ok"}

\* MCPClient(transport) and client.connect(): a transport whose connect raised
\* is not connected
NewClient(s, how) == [server |-> s, connected |-> (how # "connect raises")]

SetStatus(s, status) == [server_configs EXCEPT ![s] = status]

\* POST /api/servers/<id>/connect
connect_server(s) ==
    /\ Len(clients) < MaxClients
    /\ IF s \notin DOMAIN server_configs
       THEN UNCHANGED webVars
       ELSE \E how \in HandshakeEnds :
              /\ clients' = Append(clients, NewClient(s, how))
              /\ IF how = "ok"
                 THEN /\ active_clients' = Put(active_clients, s, Len(clients) + 1)
                      /\ server_configs' = SetStatus(s, "connected")
                 ELSE /\ UNCHANGED active_clients
                      /\ server_configs' = SetStatus(s, "error")
    /\ UNCHANGED webRest

\* POST /api/servers/<id>/disconnect
disconnect_server(s) ==
    /\ IF s \notin DOMAIN active_clients
       THEN UNCHANGED webVars
       ELSE /\ clients' = [clients EXCEPT ![active_clients[s]].connected = FALSE]
            /\ active_clients' = Pop(active_clients, s)
            /\ server_configs' = IF s \in DOMAIN server_configs
                                 THEN SetStatus(s, "disconnected")
                                 ELSE server_configs
    /\ UNCHANGED webRest

\* DELETE /api/servers/<id>
delete_server(s) ==
    /\ IF s \notin DOMAIN server_configs
       THEN UNCHANGED webVars
       ELSE /\ IF s \in DOMAIN active_clients
               THEN /\ clients' = [clients EXCEPT ![active_clients[s]].connected = FALSE]
                    /\ active_clients' = Pop(active_clients, s)
               ELSE UNCHANGED <<clients, active_clients>>
            /\ server_configs' = Pop(server_configs, s)
    /\ UNCHANGED webRest

\* POST /api/servers/<id>/test: test_client.disconnect() is reached only when
\* connect and initialize both returned
test_connection(s) ==
    /\ Len(clients) < MaxClients
    /\ IF s \notin DOMAIN server_configs
       THEN UNCHANGED webVars
       ELSE \E how \in HandshakeEnds :
              /\ clients' = Append(clients,
                                   IF how = "ok"
                                   THEN [server |-> s, connected |-> FALSE]
                                   ELSE NewClient(s, how))
              /\ UNCHANGED <<active_clients, server_configs>>
    /\ UNCHANGED webRest

NextWeb ==
    \E s \in ServerIds :
        \/ connect_server(s)
        \/ disconnect_server(s)
        \/ delete_server(s)
        \/ test_connection(s)

SpecWeb == Init /\ [][NextWeb]_vars

\* ------------------------------------------------ MCPClient.lock, by step
\* _send_request and _handle_response with every `with self.lock:` block taken
\* apart: the acquisition, then each statement of the block, the last of which
\* leaves the block and releases the lock.
Reader == "reader"

\* where a caller stands before a `with self.lock:`, and the first statement
\* of that block
Block(at) ==
    CASE at = "gen_acquire" -> "gen_incr"
      [] at = "reg_acquire" -> "reg_store"
      [] at = "take_acquire" -> "take_pop"
      [] at = "clean_acquire" -> "clean_pending"

AcquirePoints == {"gen_acquire", "reg_acquire", "take_acquire", "clean_acquire"}

\* the statements that read or write a table or the counter
TableStatements ==
    {"gen_incr", "gen_format", "reg_store", "take_pop", "clean_pending", "clean_responses"}

ReaderStatements == {"lookup", "store", "set"}

\* the callers whose request was written to the transport
HasSent(c) ==
    pc[c] \in {"reg_acquire", "reg_store", "l_wait", "take_acquire", "take_pop",
               "clean_acquire", "clean_pending", "clean_responses", "done"}

ResponsesByStep ==
    { MCPResponse(i, "null", NoError) :
        i \in {request_id[c] : c \in {d \in Callers : HasSent(d)}} \cup {StrayId} }

lockRest ==
    <<pureVars, webVars, threadVars, readerVars, transportVars, sessionVars, in_time, late, last_delivery,
      handshaken>>

InitLock ==
    /\ kind \in AsyncKinds
    /\ connected = TRUE
    /\ running = TRUE
    /\ handle = "open"
    /\ live = TRUE
    /\ initialized = TRUE
    /\ server_capabilities = "{capabilities}"
    /\ request_id_counter = 0
    /\ pending_requests = <<>>
    /\ request_responses = <<>>
    /\ pc = [c \in Callers |-> "idle"]
    /\ call = [c \in Callers |-> NoCall]
    /\ request_id = [c \in Callers |-> NoId]
    /\ event = [c \in Callers |-> FALSE]
    /\ response = [c \in Callers |-> EmptyDict]
    /\ outcome = [c \in Callers |-> NoOutcome]
    /\ sentBy = [c \in Callers |-> <<>>]
    /\ generated = <<>>
    /\ in_time = [c \in Callers |-> FALSE]
    /\ late = [c \in Callers |-> FALSE]
    /\ last_delivery = "none"
    /\ handshaken = TRUE
    /\ reader_exited = FALSE
    /\ replies = <<>>
    /\ discarded = FALSE
    /\ lock = "free"
    /\ reader_pc = "recv"
    /\ reading = EmptyDict
    /\ readers = <<>>
    /\ closedBy = <<>>
    /\ active_clients = <<>>
    /\ server_configs = [s \in ServerIds |-> "disconnected"]
    /\ clients = <<>>
    /\ payload = EmptyDict
    /\ verdict = Unvalidated

\* list_tools -> _send_request("tools/list"): request_id = self._generate_request_id()
BeginByStep(c) ==
    /\ pc[c] = "idle"
    /\ request_id_counter
         + Cardinality({d \in Callers : pc[d] \in {"gen_acquire", "gen_incr"}}) < MaxRequests
    /\ call' = [call EXCEPT ![c] = [method |-> "tools/list", params |-> "None", input |-> <<>>]]
    /\ pc' = [pc EXCEPT ![c] = "gen_acquire"]
    /\ UNCHANGED <<lockRest, lockVars, request_id_counter, tableVars, request_id, event,
                   response, outcome, sentBy, generated>>

\* a `with self.lock:` that enters its block whoever holds the lock
AcquireUnguarded(c) ==
    /\ pc[c] \in AcquirePoints
    /\ lock' = c
    /\ pc' = [pc EXCEPT ![c] = Block(pc[c])]
    /\ UNCHANGED <<lockRest, reader_pc, reading, request_id_counter, tableVars, call,
                   request_id, event, response, outcome, sentBy, generated>>

\* `with self.lock:` of a caller: threading.Lock.acquire blocks while it is held
Acquire(c) ==
    /\ pc[c] \in AcquirePoints
    /\ lock = "free"
    /\ lock' = c
    /\ pc' = [pc EXCEPT ![c] = Block(pc[c])]
    /\ UNCHANGED <<lockRest, reader_pc, reading, request_id_counter, tableVars, call,
                   request_id, event, response, outcome, sentBy, generated>>

\* self.request_id_counter += 1
IncrementByStep(c) ==
    /\ pc[c] = "gen_incr"
    /\ request_id_counter' = IncrementCounter(request_id_counter)
    /\ pc' = [pc EXCEPT ![c] = "gen_format"]
    /\ UNCHANGED <<lockRest, lockVars, tableVars, call, request_id, event, response,
                   outcome, sentBy, generated>>

\* return f"req_{self.request_id_counter}_{...}", which leaves the block
FormatByStep(c) ==
    /\ pc[c] = "gen_format"
    /\ \E u \in UuidHex :
         /\ request_id' = [request_id EXCEPT ![c] = FormatId(request_id_counter, u)]
         /\ generated' = Append(generated, request_id'[c])
    /\ lock' = "free"
    /\ pc' = [pc EXCEPT ![c] = "l_send"]
    /\ UNCHANGED <<lockRest, reader_pc, reading, request_id_counter, tableVars, call,
                   event, response, outcome, sentBy>>

\* self.transport.send_message(request.to_dict()) returns None
SendByStep(c) ==
    /\ pc[c] = "l_send"
    /\ sentBy' = [sentBy EXCEPT ![c] = Append(@, TheRequest(c))]
    /\ pc' = [pc EXCEPT ![c] = "reg_acquire"]
    /\ UNCHANGED <<lockRest, lockVars, request_id_counter, tableVars, call, request_id,
                   event, response, outcome, generated>>

\* event = threading.Event(); self.pending_requests[request_id] = event
RegisterByStep(c) ==
    /\ pc[c] = "reg_store"
    /\ pending_requests' = Put(pending_requests, request_id[c], c)
    /\ event' = [event EXCEPT ![c] = FALSE]
    /\ lock' = "free"
    /\ pc' = [pc EXCEPT ![c] = "l_wait"]
    /\ UNCHANGED <<lockRest, reader_pc, reading, request_id_counter, request_responses,
                   call, request_id, response, outcome, sentBy, generated>>

\* event.wait(timeout): True when the Event is set, False at the deadline
WaitByStep(c) ==
    /\ pc[c] = "l_wait"
    /\ IF event[c]
       THEN /\ pc' = [pc EXCEPT ![c] = "take_acquire"]
            /\ UNCHANGED outcome
       ELSE /\ pc' = [pc EXCEPT ![c] = "clean_acquire"]
            /\ outcome' = [outcome EXCEPT ![c] = Raised("TimeoutError")]
    /\ UNCHANGED <<lockRest, lockVars, request_id_counter, tableVars, call, request_id,
                   event, response, sentBy, generated>>

\* response = self.request_responses.pop(request_id, {}); return response
TakeByStep(c) ==
    /\ pc[c] = "take_pop"
    /\ response' = [response EXCEPT ![c] =
                      IF request_id[c] \in DOMAIN request_responses
                      THEN request_responses[request_id[c]] ELSE EmptyDict]
    /\ request_responses' = Pop(request_responses, request_id[c])
    /\ outcome' = [outcome EXCEPT ![c] = Returned(response'[c].result)]
    /\ lock' = "free"
    /\ pc' = [pc EXCEPT ![c] = "clean_acquire"]
    /\ UNCHANGED <<lockRest, reader_pc, reading, request_id_counter, pending_requests,
                   call, request_id, event, sentBy, generated>>

\* finally: self.pending_requests.pop(request_id, None)
CleanPendingByStep(c) ==
    /\ pc[c] = "clean_pending"
    /\ pending_requests' = Pop(pending_requests, request_id[c])
    /\ pc' = [pc EXCEPT ![c] = "clean_responses"]
    /\ UNCHANGED <<lockRest, lockVars, request_id_counter, request_responses, call,
                   request_id, event, response, outcome, sentBy, generated>>

\* finally: self.request_responses.pop(request_id, None), the end of the block
CleanResponsesByStep(c) ==
    /\ pc[c] = "clean_responses"
    /\ request_responses' = Pop(request_responses, request_id[c])
    /\ lock' = "free"
    /\ pc' = [pc EXCEPT ![c] = "done"]
    /\ UNCHANGED <<lockRest, reader_pc, reading, request_id_counter, pending_requests,
                   call, request_id, event, response, outcome, sentBy, generated>>

\* the reader decoded a Response; _handle_message validated it and called
\* _handle_response: request_id = message.get('id')
ReaderReceive(m) ==
    /\ reader_pc = "recv"
    /\ validate_message(m) = 0 /\ IsResponse(m)
    /\ reading' = m
    /\ reader_pc' = "acquire"
    /\ UNCHANGED <<lockRest, lock, request_id_counter, tableVars, pc, call, request_id,
                   event, response, outcome, sentBy, generated>>

\* `with self.lock:` of _handle_response
ReaderAcquire ==
    /\ reader_pc = "acquire"
    /\ lock = "free"
    /\ lock' = Reader
    /\ reader_pc' = "lookup"
    /\ UNCHANGED <<lockRest, reading, request_id_counter, tableVars, pc, call, request_id,
                   event, response, outcome, sentBy, generated>>

\* if request_id in self.pending_requests: ... else the block ends
ReaderLookup ==
    /\ reader_pc = "lookup"
    /\ IF reading.id \in DOMAIN pending_requests
       THEN /\ reader_pc' = "store"
            /\ UNCHANGED <<lock, reading>>
       ELSE /\ reader_pc' = "recv"
            /\ lock' = "free"
            /\ reading' = EmptyDict
    /\ UNCHANGED <<lockRest, request_id_counter, tableVars, pc, call, request_id,
                   event, response, outcome, sentBy, generated>>

\* self.request_responses[request_id] = message
ReaderStore ==
    /\ reader_pc = "store"
    /\ request_responses' = Put(request_responses, reading.id, reading)
    /\ reader_pc' = "set"
    /\ UNCHANGED <<lockRest, lock, reading, request_id_counter, pending_requests, pc,
                   call, request_id, event, response, outcome, sentBy, generated>>

\* event = self.pending_requests[request_id]; event.set(), the end of the block;
\* the subscript raises KeyError when the id is gone, which _handle_message catches
ReaderSet ==
    /\ reader_pc = "set"
    /\ event' = IF reading.id \in DOMAIN pending_requests
                THEN [event EXCEPT ![pending_requests[reading.id]] = TRUE]
                ELSE event
    /\ lock' = "free"
    /\ reader_pc' = "recv"
    /\ reading' = EmptyDict
    /\ UNCHANGED <<lockRest, request_id_counter, tableVars, pc, call, request_id,
                   response, outcome, sentBy, generated>>

CallerByStep(c) ==
    \/ BeginByStep(c)
    \/ Acquire(c)
    \/ IncrementByStep(c)
    \/ FormatByStep(c)
    \/ SendByStep(c)
    \/ RegisterByStep(c)
    \/ WaitByStep(c)
    \/ TakeByStep(c)
    \/ CleanPendingByStep(c)
    \/ CleanResponsesByStep(c)
    \/ Return(c)

ReaderByStep ==
    \/ \E m \in ResponsesByStep : ReaderReceive(m)
    \/ ReaderAcquire
    \/ ReaderLookup
    \/ ReaderStore
    \/ ReaderSet

NextLock ==
    \/ \E c \in Callers : CallerByStep(c)
    \/ ReaderByStep

SpecLock == InitLock /\ [][NextLock]_vars

\* ------------------------------------------------- validate_message, alone
\* decoded payloads: every combination of a present, absent or ill-typed
\* member, and a payload that is no dict
RawPayloads ==
    [jsonrpc : {Absent, "2.0", "1.0"},
     method : {Absent, "tools/list", NonStr},
     params : {Absent, "{uri}", NonDict},
     id : {NoId, StrayId},
     result : {Absent, "null"},
     error : {NoError} \cup ErrorValues]
    \cup {NotADict}

\* the encoded Requests of valid (method, params) pairs: a str and a dict or None
EncodedRequests ==
    { MCPRequest(m, q, i) : m \in {"initialize", "tools/list", ""},
                            q \in {"None", "{}", "{uri}"},
                            i \in {StrayId} }

Payloads == RawPayloads \cup EncodedRequests

InitValidate ==
    /\ kind = "stdio"
    /\ connected = FALSE
    /\ running = FALSE
    /\ handle = "None"
    /\ live = FALSE
    /\ initialized = FALSE
    /\ server_capabilities = "None"
    /\ request_id_counter = 0
    /\ pending_requests = <<>>
    /\ request_responses = <<>>
    /\ pc = [c \in Callers |-> "idle"]
    /\ call = [c \in Callers |-> NoCall]
    /\ request_id = [c \in Callers |-> NoId]
    /\ event = [c \in Callers |-> FALSE]
    /\ response = [c \in Callers |-> EmptyDict]
    /\ outcome = [c \in Callers |-> NoOutcome]
    /\ sentBy = [c \in Callers |-> <<>>]
    /\ generated = <<>>
    /\ in_time = [c \in Callers |-> FALSE]
    /\ late = [c \in Callers |-> FALSE]
    /\ last_delivery = "none"
    /\ handshaken = FALSE
    /\ reader_exited = FALSE
    /\ replies = <<>>
    /\ discarded = FALSE
    /\ lock = "free"
    /\ reader_pc = "recv"
    /\ reading = EmptyDict
    /\ readers = <<>>
    /\ closedBy = <<>>
    /\ active_clients = <<>>
    /\ server_configs = [s \in ServerIds |-> "disconnected"]
    /\ clients = <<>>
    /\ payload \in Payloads
    /\ verdict = Unvalidated

\* validate_message(payload) is called: it returns, or raises MCPError(code)
Validate ==
    /\ verdict = Unvalidated
    /\ verdict' = <<validate_message(payload)>>
    /\ UNCHANGED <<payload, webVars, threadVars, lockVars, readerVars, transportVars,
                   clientVars, pc, call, outcome>>

SpecValidate == InitValidate /\ [][Validate]_vars

\* ------------------------------------------------------------------ claims
\* _send_request has handed the operation a Response taken from the table
HoldsResponse(c) ==
    /\ kind \in AsyncKinds
    /\ \/ pc[c] = "cleanup" /\ outcome[c].status # "TimeoutError"
       \/ pc[c] \in {"post", "notify", "setinit"}

TimedOut(c) == pc[c] = "done" /\ outcome[c].status = "TimeoutError"

\* C1: on an asynchronous transport every call that returns a Response returns
\* the one whose id is its own request id, and every Response waiting in the
\* table sits under its own id, in whatever order the Responses were delivered.
C1_ResponseGoesToItsCaller ==
    /\ \A c \in Callers : HoldsResponse(c) => response[c].id = request_id[c]
    /\ \A i \in DOMAIN request_responses : request_responses[i].id = i

\* two calls were in flight, the Response to the younger request came first and
\* its caller holds it while the older call still waits
C1_Witness ==
    \E c, d \in Callers :
        /\ pc[c] = "post" /\ kind \in AsyncKinds
        /\ response[c].id = request_id[c]
        /\ pc[d] = "waiting" /\ ~event[d]
        /\ request_id[d][1] < request_id[c][1]

\* C2: on an asynchronous transport a call whose Response reached the delivery
\* callback before the deadline, at any moment after send_message returned,
\* does not end by a timeout.
C2_DeliveredInTimeIsReturned ==
    \A c \in Callers : TimedOut(c) => ~in_time[c]

\* C3: a call on an asynchronous transport that got no Response before its
\* deadline ends by TimeoutError, and once it has ended neither table holds an
\* entry for its request id.
C3_TimeoutRaisesAndCleans ==
    \A c \in Callers :
        /\ (kind \in AsyncKinds /\ pc[c] = "cleanup" /\ ~in_time[c])
               => outcome[c].status = "TimeoutError"
        /\ TimedOut(c) => /\ request_id[c] \notin DOMAIN pending_requests
                          /\ request_id[c] \notin DOMAIN request_responses

\* a call ended by TimeoutError with no Response ever delivered for it
C3_Witness ==
    \E c \in Callers : kind \in AsyncKinds /\ TimedOut(c) /\ ~in_time[c] /\ ~late[c]

\* the scheduling the code relies on: the caller thread keeps running, and
\* event.wait(timeout) returns within its timeout
FairSession == SpecSession /\ WF_vars(RequestStep(MainThread))

\* C4: once send_message has returned, the caller leaves _send_request: it
\* returns a Response or raises TimeoutError, whatever the remote and the
\* reader do meanwhile.
C4_CallTerminates ==
    \A c \in Callers :
        (pc[c] \in {"register", "waiting"}) ~> (pc[c] = "post" \/ TimedOut(c))

\* a caller is blocked on its Event with no Response there and the reader stopped
C4_Witness ==
    \E c \in Callers : pc[c] = "waiting" /\ ~event[c] /\ ~running

\* a step of the reader: no caller moves and the transport and session flags stay
DeliveryStep == pc' = pc /\ UNCHANGED <<connected, running, initialized>>

\* C5: delivering a Response whose id is in no entry of pending_requests sets
\* no Event, changes neither table, moves no caller and leaves the reader running.
C5_UnmatchedResponseDropped ==
    [][(DeliveryStep /\ last_delivery' = "unmatched")
          => /\ UNCHANGED <<pending_requests, request_responses, event>>
             /\ UNCHANGED <<pc, outcome, response, running>>]_vars

\* a Response with an unknown id was delivered while a caller waits, and the
\* caller still waits
C5_Witness ==
    /\ last_delivery = "unmatched"
    /\ request_responses = <<>>
    /\ \E c \in Callers : pc[c] = "waiting" /\ ~event[c]

\* C6: once a call has ended by timeout neither table holds an entry for its
\* id, also after a late Response for that id was delivered, and no other call
\* holds a Response with that id.
C6_LateResponseDropped ==
    \A c \in Callers :
        TimedOut(c) =>
            /\ request_id[c] \notin DOMAIN pending_requests
            /\ request_id[c] \notin DOMAIN request_responses
            /\ \A d \in Callers \ {c} : response[d].id # request_id[c]

\* a call timed out, its Response came afterwards, and another call is under way
C6_Witness ==
    \E c, d \in Callers :
        /\ TimedOut(c) /\ late[c]
        /\ d # c /\ pc[d] \in {"waiting", "post"}

\* C8: no two generated request ids are equal, and the counter part of each is
\* greater than that of every id generated before it.
C8_RequestIdsUnique ==
    \A i, j \in DOMAIN generated :
        i < j => generated[i] # generated[j] /\ generated[i][1] < generated[j][1]

\* two callers hold an id each at the same time
C8_Witness ==
    /\ Len(generated) >= 2
    /\ \A c \in Callers : request_id[c] # NoId /\ pc[c] \in {"send", "register", "waiting"}

\* the methods of list_tools, call_tool, list_resources, read_resource,
\* list_prompts and get_prompt
TypedMethods ==
    {"tools/list", "tools/call", "resources/list", "resources/read", "prompts/list",
     "prompts/get"}

\* C7: each of the six typed operations, entered while initialized is false,
\* ends at once by the 'not initialized' RuntimeError: no request id is
\* generated and nothing is handed to transport.send_message.
C7_UninitializedCallFails ==
    [][\A c \in Callers :
          (pc[c] = "idle" /\ pc'[c] # "idle" /\ call'[c].method \in TypedMethods
             /\ ~initialized)
              => /\ pc'[c] = "done"
                 /\ outcome'[c].status = NotInitialized
                 /\ request_id_counter' = request_id_counter
                 /\ generated' = generated
                 /\ request_id'[c] = NoId
                 /\ sentBy'[c] = <<>>]_vars

\* after a handshake and a disconnect, a typed operation was refused
C7_Witness ==
    \E c \in Callers :
        /\ pc[c] = "done" /\ outcome[c].status = NotInitialized
        /\ call[c].method \in TypedMethods
        /\ server_capabilities # "None" /\ ~connected /\ ~initialized
        /\ sentBy[c] = <<>>

IsInitializedNotification(m) == m.method = "initialized" /\ m.id = NoId

InitializeReturned(c) ==
    pc[c] = "done" /\ call[c].method = "initialize" /\ outcome[c].status = "returned"

\* C9: over HTTP no 'initialized' notification is handed to send_message, and an
\* initialize() that returned handed it exactly one message, its initialize request.
C9_HttpSkipsInitializedNotification ==
    \A c \in Callers :
        kind = "http" =>
            /\ \A i \in DOMAIN sentBy[c] : ~IsInitializedNotification(sentBy[c][i])
            /\ InitializeReturned(c) => sentBy[c] = <<TheRequest(c)>>

\* an initialize() over HTTP has returned its result
C9_Witness ==
    \E c \in Callers :
        /\ kind = "http" /\ InitializeReturned(c) /\ initialized
        /\ Len(sentBy[c]) = 1 /\ sentBy[c][1].method = "initialize"

\* C10: over stdio and WebSocket, initialize() hands send_message the
\* 'initialized' notification only once it holds the Response to its own
\* initialize request and that Response has no error, and it hands it over once;
\* at the step where initialize() returns, server_capabilities is stored and
\* initialized is true.
C10_InitializedNotificationAfterResponse ==
    [][\A c \in Callers :
          (kind \in AsyncKinds /\ call'[c].method = "initialize")
              => /\ (\E i \in DOMAIN sentBy'[c] : IsInitializedNotification(sentBy'[c][i]))
                       => /\ response'[c].id = request_id'[c]
                          /\ response'[c].error = NoError
                          /\ response'[c].result # Absent
                          /\ sentBy'[c] = <<MCPRequest("initialize", call'[c].params, request_id'[c]),
                                            MCPNotification("initialized", "{}")>>
                 /\ (pc[c] # "done" /\ pc'[c] = "done" /\ outcome'[c].status = "returned")
                       => /\ initialized'
                          /\ server_capabilities' # "None"
                          /\ Len(sentBy'[c]) = 2
                          /\ IsInitializedNotification(sentBy'[c][2])]_vars

\* an initialize() over a persistent transport has returned its result
C10_Witness ==
    \E c \in Callers :
        /\ kind \in AsyncKinds /\ InitializeReturned(c)
        /\ initialized /\ server_capabilities = "capabilities"
        /\ Len(sentBy[c]) = 2

\* the caller enters initialize() in this step
EntersInitialize(c) ==
    pc[c] = "idle" /\ pc'[c] # "idle" /\ call'[c].method = "initialize"

\* C11: initialize() called when the handshake already occurred (initialized
\* is true) fails at once with a local error: it generates no request id and
\* hands no second initialize Request to the transport.
C11_SecondInitializeRejected ==
    [][\A c \in Callers :
         EntersInitialize(c) /\ initialized =>
             /\ pc'[c] = "done"
             /\ outcome'[c].status \notin {"none", "returned"}
             /\ sentBy'[c] = <<>>
             /\ request_id_counter' = request_id_counter]_vars
\* initialize() holds the Response to its request and tests it for an error
HoldsInitializeResponse(c) == pc[c] = "post" /\ call[c].method = "initialize"

\* C12: when the Response to the initialize Request carries an error,
\* initialize() raises MCPError with the code and message (and data) of that
\* error; it hands no 'initialized' notification to the transport, leaves
\* server_capabilities as it was and does not set initialized.
C12_InitializeErrorStopsHandshake ==
    [][\A c \in Callers :
         (HoldsInitializeResponse(c) /\ response[c].error # NoError /\ pc'[c] # pc[c])
             => /\ pc'[c] = "done"
                /\ outcome'[c] = RaisedMCPError(response[c].error)
                /\ response[c].error \in ErrorValues
                /\ \A i \in DOMAIN sentBy'[c] : ~IsInitializedNotification(sentBy'[c][i])
                /\ server_capabilities' = server_capabilities
                /\ initialized' = initialized]_vars

\* the first initialize() of a client was answered with an error and has raised
C12_Witness ==
    \E c \in Callers :
        /\ pc[c] = "done" /\ call[c].method = "initialize"
        /\ outcome[c].status = "MCPError" /\ outcome[c].error[1] = METHOD_NOT_FOUND
        /\ server_capabilities = "None" /\ ~initialized
        /\ Len(sentBy[c]) = 1
\* an initialize() has stored the capabilities and has not returned yet
FinishingHandshake(c) ==
    call[c].method = "initialize" /\ pc[c] \in {"notify", "setinit"}

\* C13: server_capabilities is populated only if an initialize() completed
\* successfully (or is about to, past its last step that can fail): a handshake
\* that fails at any step, the sending of the 'initialized' notification
\* included, leaves it unpopulated.
C13_CapabilitiesOnlyAfterHandshake ==
    server_capabilities # "None"
        => handshaken \/ \E c \in Callers : FinishingHandshake(c)
\* a typed operation holds the Response _send_request returned
HoldsTypedResponse(c) == pc[c] = "post" /\ call[c].method \in TypedMethods

\* C14: a typed operation that holds the Response to its request returns the
\* Response's result when the Response carries no error, and otherwise raises
\* MCPError with the code, message and data of the error payload; the outcome
\* is that of the caller whose request the Response answers, no other caller's
\* outcome changes.
C14_ResultOrProtocolError ==
    [][\A c \in Callers :
         (HoldsTypedResponse(c) /\ pc'[c] # pc[c])
             => /\ pc'[c] = "done"
                /\ response[c].id = request_id[c]
                /\ response[c].error = NoError
                       => /\ outcome'[c].status = "returned"
                          /\ outcome'[c].value =
                                 IF response[c].result = Absent THEN "{}" ELSE response[c].result
                /\ response[c].error # NoError
                       => /\ outcome'[c].status = "MCPError"
                          /\ outcome'[c].error[1] = response[c].error[1]
                          /\ outcome'[c].error[2] = response[c].error[2]
                          /\ outcome'[c].error[3] = response[c].error[3]
                /\ \A d \in Callers \ {c} : outcome'[d] = outcome[d]]_vars

\* a tool call on an initialized client was answered with an error and raised it
C14_Witness ==
    \E c \in Callers :
        /\ pc[c] = "done" /\ call[c].method = "tools/call"
        /\ outcome[c].status = "MCPError" /\ outcome[c].error = response[c].error
        /\ initialized
\* C15: call_tool on an initialized client with a name that is not a non-empty
\* string, or with arguments that are not a dict, ends at once by MCPError
\* INVALID_PARAMS: no request id is generated and nothing is handed to
\* transport.send_message.
C15_InvalidToolCallRejected ==
    [][\A c \in Callers :
         (/\ pc[c] = "idle" /\ pc'[c] # "idle" /\ call'[c].method = "tools/call"
          /\ initialized
          /\ \/ call'[c].input[1] \in {"", NonStr}
             \/ call'[c].input[2] = NonDict)
             => /\ pc'[c] = "done"
                /\ outcome'[c].status = "MCPError"
                /\ outcome'[c].error[1] = INVALID_PARAMS
                /\ request_id_counter' = request_id_counter
                /\ generated' = generated
                /\ request_id'[c] = NoId
                /\ sentBy'[c] = <<>>]_vars

\* a tool call with the empty name was refused on an initialized, connected client
C15_Witness ==
    \E c \in Callers :
        /\ pc[c] = "done" /\ call[c].method = "tools/call"
        /\ call[c].input = <<"", "{}">>
        /\ outcome[c].status = "MCPError" /\ outcome[c].error[1] = INVALID_PARAMS
        /\ initialized /\ connected /\ sentBy[c] = <<>>
\* C16: over HTTP a request call takes the value send_message returned as its
\* Response, whatever body the server answered with: it never registers an
\* entry of pending_requests and never waits on an Event.
C16_HttpNeverWaits ==
    kind = "http" =>
        /\ pending_requests = <<>>
        /\ \A c \in Callers : pc[c] \notin {"register", "waiting", "cleanup"}
\* a connect() call raises in this step
ConnectFailed(t) ==
    /\ pc[t] = "idle" /\ pc'[t] = "done"
    /\ call'[t].method = "connect" /\ outcome'[t].status = "connect error"

\* C17: on every transport a connect() that fails raises to its caller and
\* leaves the transport disconnected: connected is false when the failed call
\* returns, whatever the transport's state was before the call.
C17_FailedConnectLeavesDisconnected ==
    [][\A t \in Callers : ConnectFailed(t) => ~connected']_vars
\* a disconnect() call ends in this step
DisconnectEnds(t) ==
    pc[t] # "done" /\ pc'[t] = "done" /\ call'[t].method = "disconnect"

\* C18: a disconnect() that no other call overlaps, whatever state it finds
\* (connected, already disconnected, right after another disconnect() or after
\* a failed connect()), raises nothing and leaves the transport disconnected:
\* connected and running false, the handle cleared, the process or socket or
\* session connection released.
C18_DisconnectIdempotent ==
    [][\A t \in Callers :
         DisconnectEnds(t)
             => /\ outcome'[t].status = "returned"
                /\ ~connected' /\ ~running'
                /\ handle' = "None" /\ ~live']_vars

\* two disconnect() calls in a row have returned: the first found the
\* transport connected, the second found it already disconnected
C18_Witness ==
    /\ \A t \in Callers :
          pc[t] = "done" /\ call[t].method = "disconnect"
              /\ outcome[t].status = "returned"
    /\ \E t, d \in Callers :
          call[t].input[1] /\ call[d].input = <<FALSE, "None", FALSE>>
    /\ ~connected /\ handle = "None" /\ ~live
\* a disconnect() call of the thread has ended
DisconnectEnded(t) == pc[t] = "done" /\ call[t].method = "disconnect"

\* C19: disconnect() calls that run concurrently on one transport all return
\* without raising, in every interleaving of their steps, and once they have
\* all ended the transport is disconnected.
C19_ConcurrentDisconnectsComplete ==
    /\ \A t \in Callers : DisconnectEnded(t) => outcome[t].status = "returned"
    /\ (\A t \in Callers : DisconnectEnded(t)) => ~connected /\ handle = "None"
\* the caller is blocked in event.wait with its Event unset
Blocked(c) == pc[c] = "waiting" /\ ~event[c]

\* a step that is a disconnect: the transport flags go down and no caller moves
DisconnectRuns == pc' = pc /\ (connected \/ initialized) /\ ~connected' /\ ~initialized'

SendFails(c) ==
    /\ pc[c] = "send" /\ pc'[c] = "done"
    /\ call[c].method \in TypedMethods

\* C24: when transport.send_message raises on a request (not connected, a write
\* failure, a non-2xx HTTP status), the operation that sent it raises that
\* error in its own thread; the request was handed to the transport once, and
\* neither table holds an entry for its id.
C24_SendFailureRaisedOnce ==
    [][\A c \in Callers :
         SendFails(c)
             => /\ outcome'[c].status \in {NotConnected, "transport error"}
                /\ ~connected => outcome'[c].status = NotConnected
                /\ sentBy'[c] = <<TheRequest(c)>>
                /\ request_id[c] \notin DOMAIN pending_requests'
                /\ request_id[c] \notin DOMAIN request_responses'
                /\ \A d \in Callers \ {c} : outcome'[d] = outcome[d]]_vars

\* a tool call on an initialized client raised the transport's error: the
\* transport had been disconnected before the request was sent
C24_Witness ==
    \E c \in Callers :
        /\ pc[c] = "done" /\ call[c].method = "tools/call"
        /\ outcome[c].status = NotConnected
        /\ Len(sentBy[c]) = 1 /\ pending_requests = <<>>
\* the caller is inside the part of _send_request that owns a table entry
InFlight(c) == pc[c] \in {"waiting", "cleanup"}

\* C29: every entry of pending_requests and of request_responses belongs to a
\* call that is in flight, so whenever no call is in flight both tables are
\* empty, however the calls ended.
C29_EntriesLiveWithTheirCall ==
    /\ \A i \in DOMAIN pending_requests :
          InFlight(pending_requests[i]) /\ request_id[pending_requests[i]] = i
    /\ \A i \in DOMAIN request_responses :
          \E c \in Callers : InFlight(c) /\ request_id[c] = i
    /\ (\A c \in Callers : ~InFlight(c))
          => pending_requests = <<>> /\ request_responses = <<>>

\* one call ended by a Response and one by a timeout, and both tables are empty
C29_Witness ==
    /\ \E c, d \in Callers :
          /\ pc[c] = "done" /\ outcome[c].status = "returned" /\ kind \in AsyncKinds
          /\ TimedOut(d)
    /\ pending_requests = <<>> /\ request_responses = <<>>

\* C30: a second Response for an id whose Response is already stored is
\* dropped: the stored Response is not replaced, so the caller returns the
\* first Response delivered for its id.
C30_DuplicateResponseDropped ==
    [][\A i \in DOMAIN request_responses :
         i \in DOMAIN request_responses' => request_responses'[i] = request_responses[i]]_vars
\* what the far end of a pipe decodes from the line the caller's request is sent as
DecodedRequest(c) == json_loads(Strip(StdioFrame(json_dumps(TheRequest(c)))))

\* C27: decoding the framed encoding of a Request the client built gives a
\* message with the method, the params and the id the Request was built with,
\* also when the params are the empty object.
C27_RequestRoundTrip ==
    \A c \in Callers :
        pc[c] = "send" =>
            /\ DecodedRequest(c).method = call[c].method
            /\ DecodedRequest(c).params = call[c].params
            /\ DecodedRequest(c).id = request_id[c]
\* C25: validate_message accepts the encoded Request of every valid
\* (method, params) pair, and rejects with INVALID_REQUEST every payload whose
\* jsonrpc member is absent or is not "2.0".
C25_ValidateRequestAndVersion ==
    verdict # Unvalidated =>
        /\ payload \in EncodedRequests => verdict = <<0>>
        /\ payload.jsonrpc # "2.0" => verdict = <<INVALID_REQUEST>>

\* the Request of a method with the empty object as params was encoded and accepted
C25_Witness ==
    /\ verdict = <<0>>
    /\ payload = MCPRequest("tools/list", "{}", StrayId)

\* C26: for a payload tagged "2.0" that has no method, validate_message
\* succeeds exactly when the payload has one of result and error, not both,
\* and has an id; otherwise it fails with INVALID_REQUEST.
C26_ValidateResponseShape ==
    (verdict # Unvalidated /\ payload.jsonrpc = "2.0" /\ payload.method = Absent)
        => /\ verdict = <<0>>
              <=> /\ (payload.result # Absent) # (payload.error # NoError)
                  /\ payload.id # NoId
           /\ verdict # <<0>> => verdict = <<INVALID_REQUEST>>

\* an error Response with an id was accepted
C26_Witness ==
    /\ verdict = <<0>>
    /\ payload.method = Absent /\ payload.result = Absent
    /\ payload.error # NoError /\ payload.id # NoId
ResolvingDelivery(c) ==
    /\ pc[c] = "waiting" /\ pc' = pc
    /\ ~in_time[c] /\ in_time'[c]

\* C22: on a stdio or websocket transport, the step in which the reader meets
\* text that is no JSON changes no table, no Event, no call and no outcome, and
\* leaves the reader running and the transport flags as they were; and on a
\* connection where such text was discarded, a Response that arrives for the
\* id of a waiting call is still stored under that id and sets the call's Event.
C22_UndecodableFrameDiscarded ==
    [][/\ (last_delivery' = "undecodable" /\ last_delivery # "undecodable")
            => /\ kind \in AsyncKinds
               /\ UNCHANGED <<tableVars, event, pc, call, outcome, response,
                              sessionVars, transportVars, reader_exited>>
               /\ replies' = <<>>
       /\ \A c \in Callers :
            (discarded /\ ResolvingDelivery(c))
               => /\ event'[c]
                  /\ request_id[c] \in DOMAIN request_responses'
                  /\ request_responses'[request_id[c]].id = request_id[c]]_vars

\* after a discarded frame, the Response to the call arrived and the call
\* returned its result
C22_Witness ==
    /\ discarded
    /\ last_delivery = "matched"
    /\ pc[MainThread] = "done"
    /\ in_time[MainThread]
    /\ outcome[MainThread].status = "returned"
    /\ ~reader_exited

\* C23: on a websocket transport, the step in which the reader leaves its loop
\* on a close of the connection sets connected to false; the reader handles
\* nothing after it; and a send made while connected is false ends in the
\* not-connected error, with nothing registered for it.
C23_PeerCloseDisconnects ==
    [][/\ (kind = "websocket" /\ ~reader_exited /\ reader_exited') => ~connected'
       /\ (reader_exited /\ reader_exited')
            => /\ UNCHANGED <<last_delivery, replies, discarded>>
               /\ DOMAIN request_responses' \subseteq DOMAIN request_responses
       /\ \A c \in Callers :
            (pc[c] = "send" /\ pc'[c] # "send" /\ ~connected)
               => /\ pc'[c] = "done"
                  /\ outcome'[c].status = NotConnected
                  /\ UNCHANGED tableVars]_vars

\* the peer closed the socket, nobody called disconnect, and a later call was
\* refused as not connected
C23_Witness ==
    /\ kind = "websocket"
    /\ reader_exited /\ running /\ handle = "open" /\ ~connected
    /\ initialized
    /\ pc[MainThread] = "done"
    /\ call[MainThread].method = "tools/list"
    /\ outcome[MainThread].status = NotConnected

\* the thread at a statement that reads or writes a table or the counter
AtTable(t) ==
    IF t = Reader THEN reader_pc \in ReaderStatements ELSE pc[t] \in TableStatements

\* the thread takes the step
Steps(t) ==
    IF t = Reader THEN reader_pc' # reader_pc ELSE pc'[t] # pc[t]

\* a thread at a table statement holds the lock, and what the reader looked up
\* is still there when it stores and when it sets the Event
LockHeldAtTables ==
    /\ \A t \in Callers \cup {Reader} : AtTable(t) => lock = t
    /\ lock = "free" => \A t \in Callers \cup {Reader} : ~AtTable(t)
    /\ reader_pc \in {"store", "set"} => reading.id \in DOMAIN pending_requests
    /\ reader_pc = "set" =>
          /\ reading.id \in DOMAIN request_responses
          /\ request_responses[reading.id] = reading

\* C28: a caller thread or the reader is at a statement that reads or writes
\* pending_requests, request_responses or request_id_counter only while it
\* holds the client's one lock; the tables and the counter change only in a
\* step of the thread that holds the lock; and from the reader's lookup of an
\* id to its setting of the Event the id stays in pending_requests, so lookup
\* and release are one step as seen by every other thread.
C28_TablesUnderOneLock ==
    [][/\ LockHeldAtTables'
       /\ (tableVars' # tableVars \/ request_id_counter' # request_id_counter)
             => /\ lock # "free"
                /\ Steps(lock)]_vars

\* the reader found the id of a waiting call and holds the lock, while the
\* other caller stands before its own block
C28_Witness ==
    /\ reader_pc = "store"
    /\ lock = Reader
    /\ \E c \in Callers :
         /\ pc[c] = "clean_acquire" /\ reading.id = request_id[c]
         /\ outcome[c].status = "TimeoutError"
    /\ \E d \in Callers : pc[d] = "reg_acquire"

\* _send_request has returned a Response to the operation that called it
ResponseReturned(c) == pc[c] = "post"

\* C31: every Response that _send_request returns to its caller carries the id
\* of the caller's Request, on stdio, websocket and http.
C31_ReturnedResponseHasRequestId ==
    \A c \in Callers : ResponseReturned(c) => response[c].id = request_id[c]

\* C32: every Response that _send_request returns to its caller, and every
\* message handed to transport.send_message, is one that validate_message
\* accepts.
C32_EveryMessageValidated ==
    \A c \in Callers :
        /\ ResponseReturned(c) => validate_message(response[c]) = 0
        /\ \A k \in DOMAIN sentBy[c] : validate_message(sentBy[c][k]) = 0

\* C33: when the reader hands _handle_message a payload that validate_message
\* rejects, the reader goes on, no table and no Event changes, nothing is sent
\* in reply and no call moves; and a call whose Event is not set leaves its
\* wait by the timeout only.
C33_InvalidInboundDropped ==
    [][/\ \A m \in InvalidInbound :
            Deliver(m)
              => /\ UNCHANGED <<tableVars, event, pc, outcome, response, sessionVars,
                                transportVars, reader_exited>>
                 /\ replies' = <<>>
       /\ \A c \in Callers :
            (pc[c] = "waiting" /\ ~event[c] /\ pc'[c] # "waiting")
               => outcome'[c].status = "TimeoutError"]_vars

\* a payload that fails validation was the last thing the reader handled
\* before the waiting call timed out
C33_Witness ==
    /\ kind \in AsyncKinds /\ running /\ ~reader_exited
    /\ last_delivery = "invalid"
    /\ pc[MainThread] = "done"
    /\ call[MainThread].method = "tools/list"
    /\ outcome[MainThread].status = "TimeoutError"
    /\ ~in_time[MainThread]

\* the caller's Event is set and the caller has not yet taken its Response
Released(c) == pc[c] = "waiting" /\ event[c]

\* C35: a Response is stored only under an id that has a registered waiter,
\* and a caller whose Event is set finds the Response with its id in the table;
\* the Response it has taken is never the empty default.
C35_StoredOnlyForWaiters ==
    /\ DOMAIN request_responses \subseteq DOMAIN pending_requests
    /\ \A c \in Callers :
         /\ Released(c) =>
               /\ request_id[c] \in DOMAIN request_responses
               /\ request_responses[request_id[c]].id = request_id[c]
         /\ (pc[c] = "cleanup" /\ outcome[c].status # "TimeoutError")
               => response[c] # EmptyDict

\* one caller is released with its Response stored while the other still waits
C35_Witness ==
    /\ Released("t1")
    /\ request_id["t1"] \in DOMAIN request_responses
    /\ pc["t2"] = "waiting" /\ ~event["t2"]
    /\ request_id["t2"] \notin DOMAIN request_responses

\* a step of c's initialize() call
InitializeStep(c) == call[c].method = "initialize" /\ pc[c] # "done" /\ pc'[c] # pc[c]

\* C36: no step of an initialize() call changes initialized, except the last
\* step of a call that returns its result; so a call that raises (an error
\* Response, a timeout, a failed send of the request or of the 'initialized'
\* notification) leaves the flag as it found it, and the flag turns true only
\* after a Response without error was received and the notification was sent
\* (or skipped, over HTTP).
C36_RaisingInitializeKeepsFlag ==
    [][\A c \in Callers :
         /\ (InitializeStep(c) /\ pc[c] # "setinit") => initialized' = initialized
         /\ (InitializeStep(c) /\ pc'[c] = "done" /\ outcome'[c].status # "returned")
               => initialized' = initialized
         /\ (InitializeStep(c) /\ initialized' # initialized)
               => /\ initialized'
                  /\ pc'[c] = "done"
                  /\ outcome'[c].status = "returned"
                  /\ response[c].error = NoError
                  /\ HasSession(kind) \/ Len(sentBy[c]) = 2]_vars

\* the request was answered, the send of the notification failed, and the
\* client is not initialized
C36_Witness ==
    /\ pc[MainThread] = "done"
    /\ call[MainThread].method = "initialize"
    /\ outcome[MainThread].status = "transport error"
    /\ Len(sentBy[MainThread]) = 2
    /\ ~initialized

\* the stdio reader has ended and nobody has called disconnect or connect since
PipeReaderGone == kind = "stdio" /\ reader_exited /\ running

\* C37: on a stdio transport the end of the reader (the child exited or closed
\* its output) leaves connected true, and it stays true until disconnect():
\* get_server_info reports connected, a request sent meanwhile is written or
\* fails with a write error, never with the not-connected error, and a call
\* that waits ends by its timeout.
C37_PipeStaysConnectedAfterEOF ==
    [][/\ (kind = "stdio" /\ ~reader_exited /\ reader_exited')
            => connected' /\ get_server_info.connected'
       /\ PipeReaderGone' => get_server_info.connected'
       /\ \A c \in Callers :
            /\ (PipeReaderGone /\ pc[c] = "send" /\ pc'[c] # "send")
                  => \/ pc'[c] = "register"
                     \/ pc'[c] = "done" /\ outcome'[c].status = "transport error"
            /\ (PipeReaderGone /\ pc[c] = "waiting" /\ ~event[c] /\ pc'[c] # "waiting")
                  => outcome'[c].status = "TimeoutError"]_vars

\* the child closed its output; a request written afterwards timed out while
\* the transport still says connected
C37_Witness ==
    /\ PipeReaderGone
    /\ get_server_info.connected
    /\ get_server_info.initialized
    /\ pc[MainThread] = "done"
    /\ call[MainThread].method = "tools/list"
    /\ outcome[MainThread].status = "TimeoutError"
    /\ last_delivery = "matched"

\* C34: at most one thread is inside the loop of _read_messages of a stdio or
\* websocket transport, whatever connect() and disconnect() calls were made.
C34_OneReaderLoop ==
    Cardinality(Looping) <= 1

\* every connection but the current one was closed by disconnect()
EarlierOnesDisconnected ==
    \A n \in DOMAIN readers :
        Conn(n) # handle => (Conn(n) \in DOMAIN closedBy /\ closedBy[Conn(n)] = "disconnect")

\* C38: on a websocket transport that was disconnected and connected again,
\* connected turns false only in a disconnect() or after the peer closed the
\* new connection.
C38_OldReaderCannotDisconnect ==
    [][(/\ kind = "websocket"
        /\ Len(readers) >= 2
        /\ EarlierOnesDisconnected
        /\ connected /\ ~connected')
          => \/ handle' = "None"
             \/ handle \in DOMAIN closedBy]_vars

\* C39: every client the web layer connected and has not disconnected is the
\* client stored in active_clients under its server id.
C39_ConnectedClientsAreStored ==
    \A k \in DOMAIN clients :
        clients[k].connected
          => /\ clients[k].server \in DOMAIN active_clients
             /\ active_clients[clients[k].server] = k
====
